---------------------------- MODULE Spec2Model ----------------------------
(***************************************************************************)
(* A model of the spine controller: the calibration normalizer             *)
(* (metrics.py), the angle mapper with its rate limiter (mapping.py), the  *)
(* servo and stepper actuator backends with their factories (servo.py,     *)
(* stepper.py), the control flow of main() (main.py), the software         *)
(* feedback signal mappers (feedback.py), the EMA metric filter            *)
(* (filter.py) and the repair of the configuration (config.py).            *)
(*                                                                         *)
(* Python floats are modelled as exact rationals <<n, d>> with d > 0 in    *)
(* lowest terms; None is the pair <<0, 0>> (no rational has denominator   *)
(* 0).                                                                     *)
(***************************************************************************)
EXTENDS Integers, Sequences, FiniteSets, TLC

VARIABLES
    \* ---- metrics.normalize_metrics: one call's inputs and result --------
    n_values,       \* MetricValues handed to normalize_metrics
    n_calib,        \* calibration {baseline, normalization} and deadband
    n_out,          \* NormalizedMetrics returned by the call
    n_done,         \* TRUE once normalize_metrics has returned
    \* ---- mapping.SpineMapper -------------------------------------------
    m_cfg,          \* the "mapping" configuration section (immutable)
    last_angles,    \* SpineMapper.last_angles, <<>> for None
    last_time,      \* SpineMapper.last_time, None before the first call
    m_metrics,      \* NormalizedMetrics of the latest map_metrics call
    m_now,          \* its timestamp
    m_prev_now,     \* timestamp of the call before it (None if none)
    m_target,       \* the strategy's target vector (raw) of the latest call
    m_out,          \* the vector the latest call returned
    m_prev_out,     \* the vector the call before it returned
    m_calls,        \* number of map_metrics calls made
    \* ---- servo.py / stepper.py: the actuator backend --------------------
    a_kind,         \* class of the controller object, "none" before creation
    a_req,          \* the factory call: use_stepper, enabled, dry_run, ctor
    a_raised,       \* the latest factory / set_angles call raised
    a_angles,       \* angles of the latest set_angles call, <<>> if none
    a_calls,        \* number of set_angles calls made
    sv_outcome,     \* latest call: per channel "ok", "OSError", "Exception"
    sv_written,     \* latest call: angle written per channel (None: none)
    st_cfg,         \* the "stepper" configuration section (immutable)
    _positions,     \* Drv8825StepperController._positions
    _initialized,   \* Drv8825StepperController._initialized
    _last_update,   \* Drv8825StepperController._last_update
    st_tick,        \* latest stepper call: dt, budget, per-motor delta/issued
    \* ---- main.py: main() ------------------------------------------------
    pc,             \* position of main()
    run_cfg,        \* runtime / backend choices of the configuration
    opened,         \* per resource: has it been opened (constructed)
    close_calls,    \* per resource: number of close() calls made on it
    exc,            \* exception propagating out of main(), "none" if none
    main_now,       \* main's now: its latest time.time() reading
    last_vision,    \* main's last_vision
    last_servo,     \* main's last_servo
    last_frame,     \* main's last_frame: "None" or "frame"
    iterations,     \* loop iterations started
    \* ---- feedback.py: the signal mappers --------------------------------
    fb_cfg,         \* the "software_feedback" configuration section
    psm,            \* a PostureSignalMapper instance (its attributes)
    fpm,            \* a FaceProximitySignalMapper instance (its attributes)
    fb_last,        \* the latest map_value / map_landmarks call and result
    fb_counts,      \* calls so far: map_value on psm, valid face scales
    fb_calls,       \* number of calls made on the two mappers
    \* ---- filter.EMAFilter -----------------------------------------------
    ema_alpha,      \* EMAFilter.alpha
    ema_value,      \* EMAFilter.value, None before the first update
    ema_in,         \* input of the latest update
    ema_prev,       \* EMAFilter.value before the latest update
    ema_calls,      \* number of update calls made
    \* ---- config.normalize_config ----------------------------------------
    cfg_in,         \* the configuration handed to normalize_config
    cfg_out,        \* the configuration after normalize_config
    cfg_done,       \* TRUE once normalize_config has returned
    \* ---- metrics.compute_metrics: one call's inputs and result ----------
    cm_in,          \* landmarks, visibility_threshold and fallback flag
    cm_out,         \* MetricValues returned by the call
    cm_done,        \* TRUE once compute_metrics has returned
    \* ---- filter.MetricSmoother -----------------------------------------
    sm_cfg,         \* the "smoothing" configuration section (immutable)
    sm_filters,     \* MetricSmoother.filters: per metric the filter state
    sm_last_values, \* MetricSmoother.last_values
    sm_last_valid,  \* MetricSmoother.last_valid
    sm_last_time,   \* MetricSmoother.last_time, None before the first call
    sm_in,          \* metrics and now of the latest update call
    sm_out,         \* MetricValues returned by the latest update call
    sm_valid_out,   \* per metric, the value returned at its latest known sample
    sm_known,       \* per metric, the number of known samples so far
    sm_calls,       \* number of update calls made
    \* ---- a second MetricSmoother, updated at the same timestamps ---------
    sm2_filters,    \* its filters
    sm2_last_values, \* its last_values
    sm2_last_valid, \* its last_valid
    sm2_in,         \* the metrics of its latest update call
    sm2_out,        \* MetricValues returned by its latest update call
    sm2_same,       \* per metric, TRUE while both smoothers got the same samples
    \* ---- feedback.compute_face_scale ------------------------------------
    fs_in,          \* landmarks and visibility_threshold of the call
    fs_out,         \* the scale returned by the call
    fs_done,        \* TRUE once compute_face_scale has returned
    \* ---- main(): the compute_metrics call of the vision task -------------
    cm_main,        \* raw_metrics of main() for the landmarks of cm_in
    cm_main_done    \* TRUE once main() has computed raw_metrics

normVars == <<n_values, n_calib, n_out, n_done>>

mapperVars == <<m_cfg, last_angles, last_time, m_metrics, m_now, m_prev_now,
                m_target, m_out, m_prev_out, m_calls>>

actVars == <<a_kind, a_req, a_raised, a_angles, a_calls, sv_outcome,
             sv_written, st_cfg, _positions, _initialized, _last_update,
             st_tick>>

vars == <<n_values, n_calib, n_out, n_done,
          m_cfg, last_angles, last_time, m_metrics, m_now, m_prev_now,
          m_target, m_out, m_prev_out, m_calls,
          a_kind, a_req, a_raised, a_angles, a_calls, sv_outcome,
          sv_written, st_cfg, _positions, _initialized, _last_update,
          st_tick,
          pc, run_cfg, opened, close_calls, exc, main_now, last_vision,
          last_servo, last_frame, iterations,
          fb_cfg, psm, fpm, fb_last, fb_counts, fb_calls,
          ema_alpha, ema_value, ema_in, ema_prev, ema_calls,
          cfg_in, cfg_out, cfg_done,
          cm_in, cm_out, cm_done,
          sm_cfg, sm_filters, sm_last_values, sm_last_valid, sm_last_time,
          sm_in, sm_out, sm_valid_out, sm_known, sm_calls,
          sm2_filters, sm2_last_values, sm2_last_valid, sm2_in, sm2_out,
          sm2_same,
          fs_in, fs_out, fs_done,
          cm_main, cm_main_done>>

mainVars == <<pc, run_cfg, opened, close_calls, exc, main_now, last_vision,
              last_servo, last_frame, iterations>>

faceVars == <<fs_in, fs_out, fs_done>>

fbVars == <<fb_cfg, psm, fpm, fb_last, fb_counts, fb_calls,
            fs_in, fs_out, fs_done>>

emaVars == <<ema_alpha, ema_value, ema_in, ema_prev, ema_calls>>

cfgVars == <<cfg_in, cfg_out, cfg_done>>

metVars == <<cm_in, cm_out, cm_done, cm_main, cm_main_done>>

twinVars == <<sm2_filters, sm2_last_values, sm2_last_valid, sm2_in, sm2_out,
              sm2_same>>

smVars == <<sm_cfg, sm_filters, sm_last_values, sm_last_valid, sm_last_time,
            sm_in, sm_out, sm_valid_out, sm_known, sm_calls,
            sm2_filters, sm2_last_values, sm2_last_valid, sm2_in, sm2_out,
            sm2_same>>

None == <<0, 0>>

----------------------------------------------------------------------------
(* Exact rational arithmetic standing for Python float arithmetic.         *)

Abs(x) == IF x < 0 THEN -x ELSE x

RECURSIVE GCD(_, _)
GCD(a, b) == IF b = 0 THEN a ELSE GCD(b, a % b)

\* Reduce(n, d, g): n/d with d > 0, divided through by g = gcd(|n|, d)
Reduce(n, d, g) == <<n \div g, d \div g>>

\* The rational n/d (d # 0) in lowest terms with a positive denominator
Q(n, d) ==
    IF d = 1 THEN <<n, 1>>
    ELSE IF d < 0 THEN Reduce(-n, -d, GCD(Abs(n), -d))
    ELSE Reduce(n, d, GCD(Abs(n), d))

R(n) == <<n, 1>>

RAdd(a, b) == Q(a[1] * b[2] + b[1] * a[2], a[2] * b[2])
RSub(a, b) == Q(a[1] * b[2] - b[1] * a[2], a[2] * b[2])
RMul(a, b) == Q(a[1] * b[1], a[2] * b[2])
RDiv(a, b) == Q(a[1] * b[2], a[2] * b[1])
RNeg(a)    == <<-a[1], a[2]>>
RAbs(a)    == <<Abs(a[1]), a[2]>>
RLt(a, b)  == a[1] * b[2] < b[1] * a[2]
RLe(a, b)  == a[1] * b[2] <= b[1] * a[2]
RMax(a, b) == IF RLt(a, b) THEN b ELSE a
RMin(a, b) == IF RLt(b, a) THEN b ELSE a
RIsZero(a) == a[1] = 0

\* int(x): truncation toward zero
PyInt(a) == IF a[1] >= 0 THEN a[1] \div a[2] ELSE -((-a[1]) \div a[2])

\* round(x): to the nearest integer, ties to the even one
PyRound(a) ==
    LET f == a[1] \div a[2]
        r2 == 2 * (a[1] - f * a[2])
    IN  IF r2 < a[2] THEN f
        ELSE IF r2 > a[2] THEN f + 1
        ELSE IF f % 2 = 0 THEN f ELSE f + 1

----------------------------------------------------------------------------
(* metrics.py: normalize_metrics / _normalize_one                          *)

\* _normalize_one with the final clamp to [-1, 1] left out.
_normalize_one_noclamp(value, baseline, scale, deadband) ==
    IF value = None THEN R(0)
    ELSE LET centered == RSub(value, baseline) IN
         IF RLt(RAbs(centered), deadband) THEN R(0)
         ELSE LET scale1 == IF RIsZero(scale) THEN R(1) ELSE scale IN
              IF RIsZero(scale1) THEN R(0)
              ELSE RDiv(centered, scale1)

\* _normalize_one with the deadband applied to the raw value instead of the
\* value centred on the baseline.
_normalize_one_rawdeadband(value, baseline, scale, deadband) ==
    IF value = None THEN R(0)
    ELSE LET centered == RSub(value, baseline) IN
         IF RLt(RAbs(value), deadband) THEN R(0)
         ELSE LET scale1 == IF RIsZero(scale) THEN R(1) ELSE scale IN
              IF RIsZero(scale1) THEN R(0)
              ELSE RMax(R(-1), RMin(R(1), RDiv(centered, scale1)))

\* _normalize_one(value, baseline, scale, deadband)
_normalize_one(value, baseline, scale, deadband) ==
    IF value = None THEN R(0)
    ELSE LET centered == RSub(value, baseline) IN
         IF RLt(RAbs(centered), deadband) THEN R(0)
         ELSE LET scale1 == IF RIsZero(scale) THEN R(1) ELSE scale IN
              IF RIsZero(scale1) THEN R(0)
              ELSE RMax(R(-1), RMin(R(1), RDiv(centered, scale1)))

\* normalize_metrics(values, calibration, mapping)
normalize_metrics(values, calib) ==
    [lean |-> _normalize_one(values.lean_deg, calib.baseline.lean_deg,
                             calib.normalization.lean_deg, calib.deadband),
     neck |-> _normalize_one(values.neck_deg, calib.baseline.neck_deg,
                             calib.normalization.neck_deg, calib.deadband),
     tilt |-> _normalize_one(values.tilt_deg, calib.baseline.tilt_deg,
                             calib.normalization.tilt_deg, calib.deadband)]

\* Inputs of the normalizer: filtered metrics (None = unknown) and the
\* calibration read from the configuration (any numbers: normalize_config
\* does not touch the calibration section).
MaxRaw == 2

RawDegs == {None} \cup {R(15 * k) : k \in -MaxRaw..MaxRaw}

MetricValuesSet == [lean_deg : RawDegs, neck_deg : RawDegs, tilt_deg : RawDegs]

Baselines ==
    { [lean_deg |-> R(0), neck_deg |-> R(0), tilt_deg |-> R(0)],
      [lean_deg |-> R(2), neck_deg |-> R(-1), tilt_deg |-> R(10)] }

Normalizations ==
    { [lean_deg |-> R(25), neck_deg |-> R(25), tilt_deg |-> R(15)],
      [lean_deg |-> R(0), neck_deg |-> R(-25), tilt_deg |-> R(1)] }

Deadbands == {R(0), R(1), R(12)}

Calibrations ==
    [baseline : Baselines, normalization : Normalizations, deadband : Deadbands]

\* The normalizer before any call, on fixed default inputs.
NormalizeIdle ==
    /\ n_values = [lean_deg |-> None, neck_deg |-> None, tilt_deg |-> None]
    /\ n_calib = [baseline |-> [lean_deg |-> R(0), neck_deg |-> R(0),
                                tilt_deg |-> R(0)],
                  normalization |-> [lean_deg |-> R(25), neck_deg |-> R(25),
                                     tilt_deg |-> R(15)],
                  deadband |-> R(1)]
    /\ n_out = [lean |-> None, neck |-> None, tilt |-> None]
    /\ n_done = FALSE

\* One call of normalize_metrics on the inputs drawn by InitNormalize.
Normalize ==
    /\ ~n_done
    /\ n_done' = TRUE
    /\ n_out' = normalize_metrics(n_values, n_calib)
    /\ UNCHANGED <<n_values, n_calib>>
    /\ UNCHANGED <<mapperVars, actVars, mainVars,
                   fbVars, emaVars, cfgVars,
                   metVars, smVars>>

----------------------------------------------------------------------------
(* mapping.py: SpineMapper                                                 *)

NSeg == 2

Segs == 1..NSeg

\* _clamp(value, min_value, max_value)
_clamp(value, min_value, max_value) == RMax(min_value, RMin(max_value, value))

\* math.copysign(x, y) for y # 0
copysign(x, y) == IF RLt(y, R(0)) THEN RNeg(RAbs(x)) ELSE RAbs(x)

\* getattr(metrics, source_name, 0.0)
SourceValue(metrics, source_name) ==
    IF source_name = "lean" THEN metrics.lean
    ELSE IF source_name = "neck" THEN metrics.neck
    ELSE IF source_name = "tilt" THEN metrics.tilt
    ELSE R(0)

\* The threshold -> full_scale ramp of _map_hunch_push without its lower
\* guard: the amount is only capped at 1.
HunchAmountNoFloor(cfg, metrics) ==
    LET hp == cfg.hunch_push
        v0 == SourceValue(metrics, hp.source)
        source_value == IF hp.use_absolute THEN RAbs(v0) ELSE RMax(R(0), v0)
        activation_threshold == hp.activation_threshold
        full_scale == IF RLe(hp.full_scale, activation_threshold)
                      THEN RAdd(activation_threshold, Q(1, 1000000))
                      ELSE hp.full_scale
    IN  RMin(R(1), RDiv(RSub(source_value, activation_threshold),
                        RSub(full_scale, activation_threshold)))

\* hunch_amount of _map_hunch_push with the sign of the source kept: the
\* use_absolute branch is never taken.
HunchAmountSigned(cfg, metrics) ==
    LET hp == cfg.hunch_push
        v0 == SourceValue(metrics, hp.source)
        source_value == RMax(R(0), v0)
        activation_threshold == hp.activation_threshold
        full_scale == IF RLe(hp.full_scale, activation_threshold)
                      THEN RAdd(activation_threshold, Q(1, 1000000))
                      ELSE hp.full_scale
    IN  IF RLe(source_value, activation_threshold) THEN R(0)
        ELSE _clamp(RDiv(RSub(source_value, activation_threshold),
                         RSub(full_scale, activation_threshold)), R(0), R(1))

\* full_scale of _map_hunch_push after its repair (lines 79-82)
HunchFullScale(hp) ==
    IF RLe(hp.full_scale, hp.activation_threshold)
    THEN RAdd(hp.activation_threshold, Q(1, 1000000))
    ELSE hp.full_scale

\* hunch_amount of _map_hunch_push (lines 72-88)
HunchAmount(cfg, metrics) ==
    LET hp == cfg.hunch_push
        v0 == SourceValue(metrics, hp.source)
        source_value == IF hp.use_absolute THEN RAbs(v0) ELSE RMax(R(0), v0)
        activation_threshold == hp.activation_threshold
        full_scale == HunchFullScale(hp)
    IN  IF RLe(source_value, activation_threshold) THEN R(0)
        ELSE _clamp(RDiv(RSub(source_value, activation_threshold),
                         RSub(full_scale, activation_threshold)), R(0), R(1))

\* self.xs[i] if i < len(self.xs) else default (i is 1-based here)
ArrayAt(xs, i, default) == IF i <= Len(xs) THEN xs[i] ELSE default

\* SpineMapper._map_hunch_push with the clamp to [min, max] left out
_map_hunch_push_noclamp(cfg, metrics) ==
    LET hunch_amount == HunchAmount(cfg, metrics)
        max_push_deg == cfg.hunch_push.max_push_deg
    IN  [i \in Segs |->
            RAdd(ArrayAt(cfg.neutral_angles, i, R(0)),
                 RMul(RMul(RMul(ArrayAt(cfg.directions, i, R(1)),
                                max_push_deg),
                           ArrayAt(cfg.weights, i, R(1))), hunch_amount))]

\* SpineMapper._map_hunch_push; an array shorter than segments falls back to
\* the default of its line
_map_hunch_push(cfg, metrics) ==
    LET hunch_amount == HunchAmount(cfg, metrics)
        max_push_deg == cfg.hunch_push.max_push_deg
    IN  [i \in Segs |->
            _clamp(RAdd(ArrayAt(cfg.neutral_angles, i, R(0)),
                        RMul(RMul(RMul(ArrayAt(cfg.directions, i, R(1)),
                                       max_push_deg),
                                  ArrayAt(cfg.weights, i, R(1))),
                             hunch_amount)),
                   ArrayAt(cfg.min_angles, i, R(-180)),
                   ArrayAt(cfg.max_angles, i, R(180)))]

\* SpineMapper._map_spine_blend with the neck term added on every segment
_map_spine_blend_nogate(cfg, metrics) ==
    [i \in Segs |->
        LET direction == ArrayAt(cfg.directions, i, R(1))
            weight == ArrayAt(cfg.weights, i, R(1))
            upper_weight == ArrayAt(cfg.upper_weights, i, weight)
            a0 == ArrayAt(cfg.neutral_angles, i, R(90))
            a1 == RAdd(a0, RMul(RMul(RMul(direction, cfg.gain.lean), weight),
                                metrics.lean))
            a2 == RAdd(a1, RMul(RMul(RMul(direction, cfg.gain.neck),
                                     upper_weight), metrics.neck))
            a3 == RAdd(a2, RMul(RMul(RMul(direction, cfg.gain.tilt), weight),
                                metrics.tilt))
        IN  _clamp(a3, ArrayAt(cfg.min_angles, i, R(0)),
                   ArrayAt(cfg.max_angles, i, R(180)))]

\* SpineMapper._map_spine_blend; upper_segment_start is a 0-based index, and
\* an array shorter than segments falls back to the default of its line
_map_spine_blend(cfg, metrics) ==
    [i \in Segs |->
        LET direction == ArrayAt(cfg.directions, i, R(1))
            weight == ArrayAt(cfg.weights, i, R(1))
            upper_weight == ArrayAt(cfg.upper_weights, i, weight)
            a0 == ArrayAt(cfg.neutral_angles, i, R(90))
            a1 == RAdd(a0, RMul(RMul(RMul(direction, cfg.gain.lean), weight),
                                metrics.lean))
            a2 == IF i - 1 >= cfg.upper_segment_start
                  THEN RAdd(a1, RMul(RMul(RMul(direction, cfg.gain.neck),
                                          upper_weight), metrics.neck))
                  ELSE a1
            a3 == RAdd(a2, RMul(RMul(RMul(direction, cfg.gain.tilt), weight),
                                metrics.tilt))
        IN  _clamp(a3, ArrayAt(cfg.min_angles, i, R(0)),
                   ArrayAt(cfg.max_angles, i, R(180)))]

\* The strategy selected by control_mode (map_metrics lines 28-31)
StrategyTarget(cfg, metrics) ==
    IF cfg.control_mode = "hunch_push" THEN _map_hunch_push(cfg, metrics)
    ELSE _map_spine_blend(cfg, metrics)

\* dt of map_metrics line 38: "if self.last_time" is false for 0.0 as well
MapperDt(now, lt) ==
    IF lt = None \/ RIsZero(lt) THEN R(0) ELSE RMax(R(0), RSub(now, lt))

\* The rate-limit loop taking a full step of max_delta on every call
RateLimitOvershoot(prev, raw, max_delta) ==
    [i \in Segs |->
        LET delta == RSub(raw[i], prev[i]) IN
        IF RIsZero(delta) THEN raw[i]
        ELSE RAdd(prev[i], copysign(max_delta, delta))]

\* The rate-limit loop of map_metrics (lines 44-50)
RateLimit(prev, raw, max_delta) ==
    [i \in Segs |->
        LET delta == RSub(raw[i], prev[i]) IN
        IF RLt(max_delta, RAbs(delta))
        THEN RAdd(prev[i], copysign(max_delta, delta))
        ELSE raw[i]]

\* What map_metrics returns (and stores in last_angles)
MapResult(cfg, la, lt, raw, now) ==
    LET dt == MapperDt(now, lt)
    IN  IF la = <<>> THEN raw
        ELSE IF RLe(dt, R(0)) THEN raw
        ELSE RateLimit(la, raw, RMul(cfg.max_deg_per_sec, dt))

\* Per-segment arrays of the configuration, as functions of the index.
ConstArray(v) == [i \in Segs |-> v]

Directions == [i \in Segs |-> IF i % 2 = 1 THEN R(1) ELSE R(-1)]

Weights == [i \in Segs |-> Q(1, i)]

UpperWeights == [i \in Segs |-> Q(i, NSeg)]

\* neutral / min / max profiles: the tests' and the defaults', and a neutral
\* pose outside the travel of the segment.
AngleProfiles ==
    { [neutral |-> R(0), min |-> R(-35), max |-> R(35)],
      [neutral |-> R(0), min |-> R(30), max |-> R(150)] }

DefaultHunch ==
    [source |-> "neck", use_absolute |-> TRUE,
     activation_threshold |-> Q(1, 10), full_scale |-> Q(8, 10),
     max_push_deg |-> R(30)]

\* (activation_threshold, full_scale) pairs: negative, zero and positive
\* thresholds, and a full_scale that is not above the threshold.
HunchRamps ==
    { <<Q(-1, 2), Q(8, 10)>>, <<R(0), Q(8, 10)>>, <<Q(1, 10), Q(8, 10)>>,
      <<Q(1, 10), Q(1, 10)>> }

HunchConfigs ==
    { [source |-> c[1], use_absolute |-> c[2],
       activation_threshold |-> c[3][1], full_scale |-> c[3][2],
       max_push_deg |-> R(30)] :
        c \in {"neck", "lean"} \X BOOLEAN \X HunchRamps }

MappingConfig(mode, prof, hp, rate) ==
    [control_mode |-> mode,
     segments |-> NSeg,
     neutral_angles |-> ConstArray(prof.neutral),
     min_angles |-> ConstArray(prof.min),
     max_angles |-> ConstArray(prof.max),
     weights |-> Weights,
     upper_weights |-> UpperWeights,
     directions |-> Directions,
     upper_segment_start |-> NSeg \div 2,
     gain |-> [lean |-> R(30), neck |-> R(25), tilt |-> R(10)],
     hunch_push |-> hp,
     max_deg_per_sec |-> rate]

MaxDegPerSecs == {R(10), R(10000)}

\* A SpineMapper built from a mapping section that names only segments,
\* weights, directions, neutral_angles and gain.lean, plus the given
\* min_angles and max_angles (<<>> when the section has none): the other
\* keys take the defaults of __init__ and of gain.get.
BlendOnlyConfig(min_angles, max_angles) ==
    [control_mode |-> "spine_blend",
     segments |-> NSeg,
     neutral_angles |-> ConstArray(R(0)),
     min_angles |-> min_angles,
     max_angles |-> max_angles,
     weights |-> ConstArray(R(1)),
     upper_weights |-> <<>>,
     directions |-> Directions,
     upper_segment_start |-> NSeg \div 2,
     gain |-> [lean |-> R(30), neck |-> R(0), tilt |-> R(0)],
     hunch_push |-> DefaultHunch,
     max_deg_per_sec |-> R(120)]

BlendOnlyConfigs ==
    { BlendOnlyConfig(<<>>, <<>>),
      BlendOnlyConfig(ConstArray(R(-35)), ConstArray(R(35))) }

\* A SpineMapper in hunch_push mode with weights all 1 and the default
\* hunch_push section, as tests/test_hunch_mapping.py builds it, with the
\* given min_angles and max_angles (<<>> when the section has none)
HunchOnlyConfig(min_angles, max_angles, rate) ==
    [control_mode |-> "hunch_push",
     segments |-> NSeg,
     neutral_angles |-> ConstArray(R(0)),
     min_angles |-> min_angles,
     max_angles |-> max_angles,
     weights |-> ConstArray(R(1)),
     upper_weights |-> ConstArray(R(1)),
     directions |-> Directions,
     upper_segment_start |-> 1,
     gain |-> [lean |-> R(30), neck |-> R(25), tilt |-> R(10)],
     hunch_push |-> DefaultHunch,
     max_deg_per_sec |-> rate]

HunchOnlyConfigs ==
    { HunchOnlyConfig(<<>>, <<>>, R(120)),
      HunchOnlyConfig(ConstArray(R(-35)), ConstArray(R(35)), R(10000)) }

MappingConfigs ==
    {MappingConfig("spine_blend", prof, DefaultHunch, rate) :
        prof \in AngleProfiles, rate \in MaxDegPerSecs}
    \cup
    {MappingConfig("hunch_push", c[1], c[2], c[3]) :
        c \in AngleProfiles \X HunchConfigs \X MaxDegPerSecs}
    \cup BlendOnlyConfigs
    \cup HunchOnlyConfigs

\* Normalized metrics handed to the mapper (each in [-1, 1]).
Metrics(lean, neck, tilt) == [lean |-> lean, neck |-> neck, tilt |-> tilt]

NormalizedMetricsSet ==
    { Metrics(R(0), R(0), R(0)),
      Metrics(Q(1, 2), R(0), R(0)),
      Metrics(R(0), Q(6, 10), R(0)),
      Metrics(R(0), Q(-6, 10), R(0)),
      Metrics(Q(1, 2), R(0), R(-1)),
      Metrics(Q(-1, 2), Q(8, 10), R(1)) }

MaxTime == 2

MaxCalls == 3

Times == {R(t) : t \in 0..MaxTime}

\* SpineMapper.__init__
MapperFresh ==
    /\ last_angles = <<>>
    /\ last_time = None
    /\ m_metrics = [lean |-> R(0), neck |-> R(0), tilt |-> R(0)]
    /\ m_now = None
    /\ m_prev_now = None
    /\ m_target = <<>>
    /\ m_out = <<>>
    /\ m_prev_out = <<>>
    /\ m_calls = 0

MapperIdle ==
    /\ m_cfg = MappingConfig("spine_blend",
                             [neutral |-> R(90), min |-> R(30), max |-> R(150)],
                             DefaultHunch, R(120))
    /\ MapperFresh

\* SpineMapper.map_metrics(metrics, now)
MapMetrics ==
    /\ m_calls < MaxCalls
    /\ \E metrics \in NormalizedMetricsSet, now \in Times :
        /\ m_target' = StrategyTarget(m_cfg, metrics)
        /\ m_out' = MapResult(m_cfg, last_angles, last_time, m_target', now)
        /\ last_angles' = m_out'
        /\ last_time' = now
        /\ m_metrics' = metrics
        /\ m_now' = now
        /\ m_prev_now' = m_now
        /\ m_prev_out' = m_out
        /\ m_calls' = m_calls + 1
    /\ UNCHANGED m_cfg
    /\ UNCHANGED <<normVars, actVars, mainVars,
                   fbVars, emaVars, cfgVars,
                   metVars, smVars>>

----------------------------------------------------------------------------
(* servo.py: Pca9685ServoController, DryRunServoController and the factory *)

\* normalize_config leaves exactly `segments` servo channels
Chans == 1..NSeg

NoneWritten == [c \in Chans |-> None]

\* Angle vectors a caller hands to set_angles (degrees): all segments at 0,
\* all at 810 (450 full steps of a 200 steps/rev motor) and segment i at
\* 9*i (5*i full steps).
AngleVectors ==
    { [i \in Segs |-> R(0)], [i \in Segs |-> R(810)],
      [i \in Segs |-> R(9 * i)] }

ServoOutcomes == [Chans -> {"ok", "OSError", "Exception"}]

\* Pca9685ServoController.set_angles without the try/except around the
\* assignment: the first failing channel ends the call with the exception.
RECURSIVE ServoLoopNoCatch(_, _, _, _)
ServoLoopNoCatch(c, written, outcome, angles) ==
    IF c > NSeg THEN [written |-> written, raised |-> FALSE]
    ELSE IF outcome[c] = "ok"
    THEN ServoLoopNoCatch(c + 1, [written EXCEPT ![c] = angles[c]], outcome,
                          angles)
    ELSE [written |-> written, raised |-> TRUE]

Pca9685_set_angles_nocatch(outcome, angles) ==
    ServoLoopNoCatch(1, NoneWritten, outcome, angles)

\* The loop of Pca9685ServoController.set_angles from channel c on: a channel
\* whose assignment raises OSError or another Exception is logged and skipped.
RECURSIVE ServoLoop(_, _, _, _)
ServoLoop(c, written, outcome, angles) ==
    IF c > NSeg THEN [written |-> written, raised |-> FALSE]
    ELSE IF outcome[c] = "ok"
    THEN ServoLoop(c + 1, [written EXCEPT ![c] = angles[c]], outcome, angles)
    ELSE ServoLoop(c + 1, written, outcome, angles)

\* Pca9685ServoController.set_angles(angles): what is written, and whether
\* the call raised
Pca9685_set_angles(outcome, angles) ==
    ServoLoop(1, NoneWritten, outcome, angles)

\* create_servo_controller with the constructor's exception propagated
create_servo_controller_nocatch(enabled, dry_run, ctor) ==
    IF dry_run \/ ~enabled THEN [kind |-> "DryRunServo", raised |-> FALSE]
    ELSE IF ctor = "ok" THEN [kind |-> "Pca9685", raised |-> FALSE]
    ELSE [kind |-> "none", raised |-> TRUE]

\* create_servo_controller(config, dry_run); ctor is what the constructor of
\* Pca9685ServoController does: "ok" or "raise"
create_servo_controller(enabled, dry_run, ctor) ==
    IF dry_run \/ ~enabled THEN [kind |-> "DryRunServo", raised |-> FALSE]
    ELSE IF ctor = "ok" THEN [kind |-> "Pca9685", raised |-> FALSE]
    ELSE [kind |-> "DryRunServo", raised |-> FALSE]

----------------------------------------------------------------------------
(* stepper.py: Drv8825StepperController, DryRunStepperController, factory  *)

NMotors == 2

Motors == 1..NMotors

Min(a, b) == IF a < b THEN a ELSE b

NoTarget == [some |-> FALSE, v |-> 0]

\* steps_per_deg = (steps_per_rev * microstep) / 360.0
steps_per_deg(cfg) == Q(cfg.steps_per_rev * cfg.microstep, 360)

\* targets of set_angles (lines 113-120); angle_index is 0-based
StepTargets(cfg, angles) ==
    [k \in Motors |->
        LET angle_index == cfg.angle_index[k] IN
        IF angle_index < 0 \/ angle_index >= Len(angles) THEN NoTarget
        ELSE [some |-> TRUE,
              v |-> PyRound(RMul(angles[angle_index + 1], steps_per_deg(cfg)))]]

\* max_steps of set_angles (lines 102-105)
MaxSteps(cfg, dt) ==
    IF RLt(R(0), cfg.max_steps_per_sec)
    THEN PyInt(RMul(cfg.max_steps_per_sec, dt))
    ELSE 0

\* step_limit of one motor without the min against |delta|
StepLimitOvershoot(delta, max_steps) ==
    IF max_steps > 0 THEN max_steps ELSE Abs(delta)

\* step_limit of one motor (lines 136-138)
StepLimit(delta, max_steps) ==
    IF max_steps > 0 THEN Min(Abs(delta), max_steps) ELSE Abs(delta)

NoFail == [motor |-> 0, writes |-> 0]

IdleTick(pos) ==
    [dt |-> R(0), max_steps |-> 0, seeded |-> FALSE,
     targets |-> [k \in Motors |-> NoTarget],
     before |-> pos,
     issued |-> [k \in Motors |-> 0],
     dir |-> [k \in Motors |-> "none"]]

\* The per-motor loop of Drv8825StepperController.set_angles from motor k on
\* (lines 128-151). fail names the motor on which a GPIO.output call raises
\* and the number of GPIO.output calls for that motor that succeeded before
\* it: the direction write first, then HIGH and LOW of each pulse. The
\* exception leaves the loop and the call; the position of a motor is only
\* updated after its last pulse.
RECURSIVE MotorLoop(_, _, _, _, _, _, _)
MotorLoop(k, pos, issued, dir, targets, max_steps, fail) ==
    IF k > NMotors
    THEN [pos |-> pos, issued |-> issued, dir |-> dir, raised |-> FALSE]
    ELSE IF ~targets[k].some
    THEN MotorLoop(k + 1, pos, issued, dir, targets, max_steps, fail)
    ELSE LET delta == targets[k].v - pos[k]
             step_limit == StepLimit(delta, max_steps)
             direction == IF delta > 0 THEN "HIGH" ELSE "LOW"
         IN  IF delta = 0 \/ step_limit = 0
             THEN MotorLoop(k + 1, pos, issued, dir, targets, max_steps, fail)
             ELSE IF fail.motor = k
             THEN LET w == Min(fail.writes, 2 * step_limit) IN
                  [pos |-> pos,
                   issued |-> [issued EXCEPT ![k] = w \div 2],
                   dir |-> [dir EXCEPT ![k] = IF w >= 1 THEN direction
                                              ELSE "none"],
                   raised |-> TRUE]
             ELSE MotorLoop(k + 1,
                     [pos EXCEPT ![k] = IF delta > 0 THEN @ + step_limit
                                        ELSE @ - step_limit],
                     [issued EXCEPT ![k] = step_limit],
                     [dir EXCEPT ![k] = direction],
                     targets, max_steps, fail)

\* Drv8825StepperController.set_angles without the seeding branch of lines
\* 122-126: the first call steps towards its targets like every other call
Drv8825_set_angles_noseed(cfg, pos, initialized, last_update, angles, now, fail) ==
    LET dt == RMax(R(0), RSub(now, last_update))
        max_steps == MaxSteps(cfg, dt)
        targets == StepTargets(cfg, angles)
        tick0 == [dt |-> dt, max_steps |-> max_steps, seeded |-> FALSE,
                  targets |-> targets, before |-> pos,
                  issued |-> [k \in Motors |-> 0],
                  dir |-> [k \in Motors |-> "none"]]
        r == MotorLoop(1, pos, tick0.issued, tick0.dir, targets, max_steps,
                       fail)
    IN  [pos |-> r.pos, initialized |-> TRUE, last_update |-> now,
         tick |-> [tick0 EXCEPT !.issued = r.issued, !.dir = r.dir],
         raised |-> r.raised]

\* Drv8825StepperController.set_angles(angles) at time now: the new
\* _positions, _initialized, _last_update, what the call did (tick) and
\* whether it raised
Drv8825_set_angles(cfg, pos, initialized, last_update, angles, now, fail) ==
    LET dt == RMax(R(0), RSub(now, last_update))
        max_steps == MaxSteps(cfg, dt)
        targets == StepTargets(cfg, angles)
        tick0 == [dt |-> dt, max_steps |-> max_steps, seeded |-> FALSE,
                  targets |-> targets, before |-> pos,
                  issued |-> [k \in Motors |-> 0],
                  dir |-> [k \in Motors |-> "none"]]
    IN  IF ~initialized
        THEN [pos |-> [k \in Motors |-> targets[k].v],
              initialized |-> TRUE, last_update |-> now,
              tick |-> [tick0 EXCEPT !.seeded = TRUE], raised |-> FALSE]
        ELSE LET r == MotorLoop(1, pos, tick0.issued, tick0.dir, targets,
                                max_steps, fail)
             IN  [pos |-> r.pos, initialized |-> TRUE, last_update |-> now,
                  tick |-> [tick0 EXCEPT !.issued = r.issued, !.dir = r.dir],
                  raised |-> r.raised]

\* create_stepper_controller(config, dry_run)
create_stepper_controller(enabled, dry_run, ctor) ==
    IF dry_run \/ ~enabled THEN [kind |-> "DryRunStepper", raised |-> FALSE]
    ELSE IF ctor = "ok" THEN [kind |-> "Drv8825", raised |-> FALSE]
    ELSE [kind |-> "DryRunStepper", raised |-> FALSE]

\* The "stepper" section after normalize_config: the defaults, with a
\* disabled, a fractional and a whole speed cap; the second choice of motors
\* gives the last motor an angle_index beyond the angle vector.
StepRates == {R(0), Q(1, 2), R(100)}

AngleIndexes ==
    { [k \in Motors |-> k - 1],
      [k \in Motors |-> IF k = NMotors THEN NSeg ELSE k - 1] }

StepperConfigs ==
    [steps_per_rev : {200}, microstep : {1}, max_steps_per_sec : StepRates,
     angle_index : AngleIndexes]

MaxDt == 2

MaxActCalls == 3

MaxFailWrites == 2

Fails ==
    {NoFail} \cup [motor : Motors, writes : 0..MaxFailWrites]

ActuatorFresh ==
    /\ a_kind = "none"
    /\ a_req = [factory |-> "none", enabled |-> FALSE, dry_run |-> FALSE,
                ctor |-> "ok"]
    /\ a_raised = FALSE
    /\ a_angles = <<>>
    /\ a_calls = 0
    /\ sv_outcome = [c \in Chans |-> "ok"]
    /\ sv_written = NoneWritten
    /\ _positions = [k \in Motors |-> 0]
    /\ _initialized = FALSE
    /\ _last_update = R(0)
    /\ st_tick = IdleTick([k \in Motors |-> 0])

ActuatorIdle ==
    /\ st_cfg = [steps_per_rev |-> 200, microstep |-> 1,
                 max_steps_per_sec |-> R(800),
                 angle_index |-> [k \in Motors |-> k - 1]]
    /\ ActuatorFresh

Ctors == {"ok", "raise"}

\* create_servo_controller(config["servo"], dry_run)
CreateServoControllerCall ==
    /\ a_kind = "none" /\ ~a_raised
    /\ \E enabled \in BOOLEAN, dry_run \in BOOLEAN, ctor \in Ctors :
        LET r == create_servo_controller(enabled, dry_run, ctor) IN
        /\ a_kind' = r.kind
        /\ a_raised' = r.raised
        /\ a_req' = [factory |-> "servo", enabled |-> enabled,
                     dry_run |-> dry_run, ctor |-> ctor]
    /\ UNCHANGED <<a_angles, a_calls, sv_outcome, sv_written, st_cfg,
                   _positions, _initialized, _last_update, st_tick>>

\* create_stepper_controller(config["stepper"], dry_run)
CreateStepperControllerCall ==
    /\ a_kind = "none" /\ ~a_raised
    /\ \E enabled \in BOOLEAN, dry_run \in BOOLEAN, ctor \in Ctors :
        LET r == create_stepper_controller(enabled, dry_run, ctor) IN
        /\ a_kind' = r.kind
        /\ a_raised' = r.raised
        /\ a_req' = [factory |-> "stepper", enabled |-> enabled,
                     dry_run |-> dry_run, ctor |-> ctor]
    /\ UNCHANGED <<a_angles, a_calls, sv_outcome, sv_written, st_cfg,
                   _positions, _initialized, _last_update, st_tick>>

\* Pca9685ServoController.set_angles(angles)
ServoSetAnglesCall ==
    /\ a_kind = "Pca9685" /\ ~a_raised /\ a_calls < MaxActCalls
    /\ \E angles \in AngleVectors, outcome \in ServoOutcomes :
        /\ \E r \in {Pca9685_set_angles(outcome, angles)} :
            /\ sv_written' = r.written
            /\ a_raised' = r.raised
        /\ sv_outcome' = outcome
        /\ a_angles' = angles
    /\ a_calls' = a_calls + 1
    /\ UNCHANGED <<a_kind, a_req, st_cfg, _positions, _initialized,
                   _last_update, st_tick>>

\* DryRunServoController.set_angles(angles): logs the rounded angles
DryRunServoSetAnglesCall ==
    /\ a_kind = "DryRunServo" /\ a_calls < MaxActCalls
    /\ \E angles \in AngleVectors : a_angles' = angles
    /\ a_calls' = a_calls + 1
    /\ UNCHANGED <<a_kind, a_req, a_raised, sv_outcome, sv_written,
                   st_cfg, _positions, _initialized, _last_update, st_tick>>

\* Drv8825StepperController.set_angles(angles), time.time() having advanced
\* by d seconds since the previous call (or the construction)
StepperSetAnglesCall ==
    /\ a_kind = "Drv8825" /\ ~a_raised /\ a_calls < MaxActCalls
    /\ \E angles \in AngleVectors, d \in 0..MaxDt, fail \in Fails :
        \E r \in {Drv8825_set_angles(st_cfg, _positions, _initialized,
                                     _last_update, angles,
                                     RAdd(_last_update, R(d)), fail)} :
            /\ _positions' = r.pos
            /\ _initialized' = r.initialized
            /\ _last_update' = r.last_update
            /\ st_tick' = r.tick
            /\ a_raised' = r.raised
            /\ a_angles' = angles
    /\ a_calls' = a_calls + 1
    /\ UNCHANGED <<a_kind, a_req, sv_outcome, sv_written, st_cfg>>

\* DryRunStepperController.set_angles(angles): seeds the positions on the
\* first call, logs the targets afterwards
DryRunStepperSetAnglesCall ==
    /\ a_kind = "DryRunStepper" /\ a_calls < MaxActCalls
    /\ \E angles \in AngleVectors :
        /\ a_angles' = angles
        /\ _positions' = IF _initialized THEN _positions
                         ELSE [k \in Motors |->
                                 StepTargets(st_cfg, angles)[k].v]
    /\ _initialized' = TRUE
    /\ a_calls' = a_calls + 1
    /\ UNCHANGED <<a_kind, a_req, a_raised, sv_outcome, sv_written,
                   st_cfg, _last_update, st_tick>>

\* actuator.set_angles(angles) on whichever controller the caller holds
SetAnglesCall ==
    \/ ServoSetAnglesCall
    \/ DryRunServoSetAnglesCall
    \/ StepperSetAnglesCall
    \/ DryRunStepperSetAnglesCall

CreateServoController ==
    CreateServoControllerCall /\ UNCHANGED <<normVars, mapperVars, mainVars,
                   fbVars, emaVars, cfgVars,
                   metVars, smVars>>

CreateStepperController ==
    CreateStepperControllerCall /\ UNCHANGED <<normVars, mapperVars, mainVars,
                   fbVars, emaVars, cfgVars,
                   metVars, smVars>>

ServoSetAngles ==
    ServoSetAnglesCall /\ UNCHANGED <<normVars, mapperVars, mainVars,
                   fbVars, emaVars, cfgVars,
                   metVars, smVars>>

DryRunServoSetAngles ==
    DryRunServoSetAnglesCall /\ UNCHANGED <<normVars, mapperVars, mainVars,
                   fbVars, emaVars, cfgVars,
                   metVars, smVars>>

StepperSetAngles ==
    StepperSetAnglesCall /\ UNCHANGED <<normVars, mapperVars, mainVars,
                   fbVars, emaVars, cfgVars,
                   metVars, smVars>>

DryRunStepperSetAngles ==
    DryRunStepperSetAnglesCall /\ UNCHANGED <<normVars, mapperVars, mainVars,
                   fbVars, emaVars, cfgVars,
                   metVars, smVars>>

----------------------------------------------------------------------------
(* main.py: main(). The resources it owns and its control flow: start-up,  *)
(* the polling loop with its two gated tasks, and the finally block. The   *)
(* landmark and metric data of the vision task are not followed here.      *)

Resources == {"camera", "pose", "actuator"}

\* vision_interval = 1.0 / vision_hz, servo_interval = 1.0 / servo_hz with
\* the default vision_hz = 10 and servo_hz = 20
vision_interval == Q(1, 10)

servo_interval == Q(1, 20)

\* The loop's time.time() readings advance in steps of 1/20 s.
ClockStep == Q(1, 20)

MaxIterations == 3

RunConfigs ==
    [use_stepper : BOOLEAN, dry_run : BOOLEAN, servo_enabled : BOOLEAN,
     show_debug_view : BOOLEAN, camera : {"Picamera2", "OpenCV"}]

MainIdle ==
    /\ pc = "idle"
    /\ run_cfg = [use_stepper |-> FALSE, dry_run |-> TRUE,
                  servo_enabled |-> TRUE, show_debug_view |-> FALSE,
                  camera |-> "Picamera2"]
    /\ opened = [r \in Resources |-> FALSE]
    /\ close_calls = [r \in Resources |-> 0]
    /\ exc = "none"
    /\ main_now = R(0)
    /\ last_vision = R(0)
    /\ last_servo = R(0)
    /\ last_frame = "None"
    /\ iterations = 0

\* main() before line 94; time.time() is far above both intervals
MainStart ==
    /\ pc = "create_camera"
    /\ run_cfg \in RunConfigs
    /\ opened = [r \in Resources |-> FALSE]
    /\ close_calls = [r \in Resources |-> 0]
    /\ exc = "none"
    /\ main_now = R(1000)
    /\ last_vision = R(0)
    /\ last_servo = R(0)
    /\ last_frame = "None"
    /\ iterations = 0

\* line 94: camera = create_camera(config["camera"]); an exception of the
\* constructor leaves main()
MainCreateCamera ==
    /\ pc = "create_camera"
    /\ \E ctor \in Ctors :
        IF ctor = "ok"
        THEN /\ opened' = [opened EXCEPT !["camera"] = TRUE]
             /\ pc' = "create_pose"
             /\ exc' = exc
        ELSE /\ exc' = "Exception"
             /\ pc' = "exit"
             /\ opened' = opened
    /\ UNCHANGED <<run_cfg, close_calls, main_now, last_vision, last_servo,
                   last_frame, iterations>>
    /\ UNCHANGED <<normVars, mapperVars, actVars,
                   fbVars, emaVars, cfgVars,
                   metVars, smVars>>

\* line 95: pose = PoseEstimator(config["pose"]); _require_solutions_pose
\* raises RuntimeError on an incompatible mediapipe
MainCreatePose ==
    /\ pc = "create_pose"
    /\ \E ctor \in Ctors :
        IF ctor = "ok"
        THEN /\ opened' = [opened EXCEPT !["pose"] = TRUE]
             /\ pc' = "create_actuator"
             /\ exc' = exc
        ELSE /\ exc' = "Exception"
             /\ pc' = "exit"
             /\ opened' = opened
    /\ UNCHANGED <<run_cfg, close_calls, main_now, last_vision, last_servo,
                   last_frame, iterations>>
    /\ UNCHANGED <<normVars, mapperVars, actVars,
                   fbVars, emaVars, cfgVars,
                   metVars, smVars>>

\* lines 98-102: the actuator from one of the two factories
MainCreateActuator ==
    /\ pc = "create_actuator"
    /\ a_kind = "none"
    /\ \E ctor \in Ctors :
        LET r == IF run_cfg.use_stepper
                 THEN create_stepper_controller(TRUE, run_cfg.dry_run, ctor)
                 ELSE create_servo_controller(run_cfg.servo_enabled,
                                              run_cfg.dry_run, ctor)
        IN  /\ a_kind' = r.kind
            /\ a_raised' = FALSE
            /\ a_req' = [factory |-> IF run_cfg.use_stepper THEN "stepper"
                                     ELSE "servo",
                         enabled |-> IF run_cfg.use_stepper THEN TRUE
                                     ELSE run_cfg.servo_enabled,
                         dry_run |-> run_cfg.dry_run, ctor |-> ctor]
            /\ IF r.raised
               THEN /\ exc' = "Exception" /\ pc' = "exit" /\ opened' = opened
               ELSE /\ exc' = exc /\ pc' = "loop_top"
                    /\ opened' = [opened EXCEPT !["actuator"] = TRUE]
    /\ UNCHANGED <<a_angles, a_calls, sv_outcome, sv_written, st_cfg,
                   _positions, _initialized, _last_update, st_tick>>
    /\ UNCHANGED <<run_cfg, close_calls, main_now, last_vision, last_servo,
                   last_frame, iterations>>
    /\ UNCHANGED <<normVars, mapperVars,
                   fbVars, emaVars, cfgVars,
                   metVars, smVars>>

\* line 120: now = time.time() at the top of an iteration
LoopTop ==
    /\ pc = "loop_top"
    /\ iterations < MaxIterations
    /\ iterations' = iterations + 1
    /\ \E d \in 0..1 :
        main_now' = IF d = 0 THEN main_now ELSE RAdd(main_now, ClockStep)
    /\ pc' = "vision"
    /\ UNCHANGED <<run_cfg, opened, close_calls, exc, last_vision, last_servo,
                   last_frame>>
    /\ UNCHANGED <<normVars, mapperVars, actVars,
                   fbVars, emaVars, cfgVars,
                   metVars, smVars>>

\* lines 122-159: the vision-rate task. camera.read() returns a frame,
\* returns None (warning, sleep, continue) or raises; an exception of
\* pose.process is caught and logged.
VisionTask ==
    /\ pc = "vision"
    /\ IF RLe(vision_interval, RSub(main_now, last_vision))
       THEN /\ last_vision' = main_now
            /\ \E frame \in {"frame", "None", "raise"} :
                /\ pc' = IF frame = "frame" THEN "actuate"
                         ELSE IF frame = "None" THEN "loop_top"
                         ELSE "finally_actuator"
                /\ exc' = IF frame = "raise" THEN "Exception" ELSE exc
                /\ last_frame' = IF frame = "frame" THEN "frame"
                                 ELSE last_frame
       ELSE /\ pc' = "actuate"
            /\ UNCHANGED <<last_vision, exc, last_frame>>
    /\ UNCHANGED <<run_cfg, opened, close_calls, main_now, last_servo,
                   iterations>>
    /\ UNCHANGED <<normVars, mapperVars, actVars,
                   fbVars, emaVars, cfgVars,
                   metVars, smVars>>

\* lines 161-164, the task due: angles = mapper.map_metrics(...);
\* actuator.set_angles(angles). An exception of set_angles is not caught in
\* the loop: it reaches the finally block.
ActuationTask ==
    /\ pc = "actuate"
    /\ RLe(servo_interval, RSub(main_now, last_servo))
    /\ last_servo' = main_now
    /\ SetAnglesCall
    /\ pc' = IF a_raised' THEN "finally_actuator" ELSE "debug"
    /\ exc' = IF a_raised' THEN "Exception" ELSE exc
    /\ UNCHANGED <<run_cfg, opened, close_calls, main_now, last_vision,
                   last_frame, iterations>>
    /\ UNCHANGED <<normVars, mapperVars,
                   fbVars, emaVars, cfgVars,
                   metVars, smVars>>

\* line 161, the task not due
ActuationSkip ==
    /\ pc = "actuate"
    /\ ~RLe(servo_interval, RSub(main_now, last_servo))
    /\ pc' = "debug"
    /\ UNCHANGED <<run_cfg, opened, close_calls, exc, main_now, last_vision,
                   last_servo, last_frame, iterations>>
    /\ UNCHANGED <<normVars, mapperVars, actVars,
                   fbVars, emaVars, cfgVars,
                   metVars, smVars>>

\* lines 166-177: the debug view, shown once a frame has been processed
\* (the key q breaks the loop), then the sleep
DebugView ==
    /\ pc = "debug"
    /\ \E key \in {"q", "other"} :
        pc' = IF run_cfg.show_debug_view /\ last_frame # "None" /\ key = "q"
              THEN "finally_actuator"
              ELSE "loop_top"
    /\ UNCHANGED <<run_cfg, opened, close_calls, exc, main_now, last_vision,
                   last_servo, last_frame, iterations>>
    /\ UNCHANGED <<normVars, mapperVars, actVars,
                   fbVars, emaVars, cfgVars,
                   metVars, smVars>>

\* lines 179-180: KeyboardInterrupt anywhere in the loop is caught and
\* passed over
KeyboardInterrupt ==
    /\ pc \in {"loop_top", "vision", "actuate", "debug"}
    /\ pc' = "finally_actuator"
    /\ UNCHANGED <<run_cfg, opened, close_calls, exc, main_now, last_vision,
                   last_servo, last_frame, iterations>>
    /\ UNCHANGED <<normVars, mapperVars, actVars,
                   fbVars, emaVars, cfgVars,
                   metVars, smVars>>

\* Which close() can raise: Drv8825StepperController.close writes the enable
\* pins outside its try; OpenCVCamera.close and PoseEstimator.close call
\* release() / close() unguarded. Pca9685ServoController.close and
\* Picamera2Camera.close swallow every Exception, the dry-run ones pass.
CloseMayRaise(r) ==
    IF r = "actuator" THEN a_kind = "Drv8825"
    ELSE IF r = "camera" THEN run_cfg.camera = "OpenCV"
    ELSE TRUE

\* One close() call of the finally block on resource r, then on to next_pc;
\* an exception of close() leaves main() at once.
CloseCall(r, next_pc) ==
    /\ close_calls' = [close_calls EXCEPT ![r] = @ + 1]
    /\ \E raises \in {b \in BOOLEAN : b => CloseMayRaise(r)} :
        /\ pc' = IF raises THEN "exit" ELSE next_pc
        /\ exc' = IF raises THEN "Exception" ELSE exc
    /\ UNCHANGED <<run_cfg, opened, main_now, last_vision, last_servo,
                   last_frame, iterations>>
    /\ UNCHANGED <<normVars, mapperVars, actVars,
                   fbVars, emaVars, cfgVars,
                   metVars, smVars>>

\* line 182: actuator.close()
FinallyActuator ==
    /\ pc = "finally_actuator"
    /\ CloseCall("actuator", "finally_camera")

\* line 183: camera.close()
FinallyCamera ==
    /\ pc = "finally_camera"
    /\ CloseCall("camera", "finally_pose")

\* line 184: pose.close()
FinallyPose ==
    /\ pc = "finally_pose"
    /\ CloseCall("pose", "finally_windows")

\* lines 185-186: cv2.destroyAllWindows() with the debug view, then main()
\* returns or re-raises the pending exception
FinallyWindows ==
    /\ pc = "finally_windows"
    /\ pc' = "exit"
    /\ UNCHANGED <<run_cfg, opened, close_calls, exc, main_now, last_vision,
                   last_servo, last_frame, iterations>>
    /\ UNCHANGED <<normVars, mapperVars, actVars,
                   fbVars, emaVars, cfgVars,
                   metVars, smVars>>

----------------------------------------------------------------------------
(* feedback.py: PostureSignalMapper, compute_face_scale and                *)
(* FaceProximitySignalMapper                                               *)

Epsilon == Q(1, 1000000)

\* PostureSignalMapper.__init__ without the repair of lines 54-55
PostureSignalMapper_init_norepair(config) ==
    [use_absolute |-> config.use_absolute,
     activation_threshold |-> config.activation_threshold,
     full_scale |-> config.full_scale,
     smoothing_alpha |-> _clamp(config.smoothing_alpha, R(0), R(1)),
     _smoothed |-> R(0)]

\* PostureSignalMapper.__init__(config): the attributes of the new object
PostureSignalMapper_init(config) ==
    [use_absolute |-> config.use_absolute,
     activation_threshold |-> config.activation_threshold,
     full_scale |-> IF RLe(config.full_scale, config.activation_threshold)
                    THEN RAdd(config.activation_threshold, Epsilon)
                    ELSE config.full_scale,
     smoothing_alpha |-> _clamp(config.smoothing_alpha, R(0), R(1)),
     _smoothed |-> R(0)]

\* The ramp of map_value with the clamp of its result left out
RampRawNoClamp(self, value) ==
    LET source_value == IF self.use_absolute THEN RAbs(value)
                        ELSE RMax(R(0), value)
    IN  IF RLe(source_value, self.activation_threshold) THEN R(0)
        ELSE RDiv(RSub(source_value, self.activation_threshold),
                  RSub(self.full_scale, self.activation_threshold))

\* raw of PostureSignalMapper.map_value (lines 62-74)
RampRaw(self, value) ==
    LET source_value == IF self.use_absolute THEN RAbs(value)
                        ELSE RMax(R(0), value)
    IN  IF RLe(source_value, self.activation_threshold) THEN R(0)
        ELSE _clamp(RDiv(RSub(source_value, self.activation_threshold),
                         RSub(self.full_scale, self.activation_threshold)),
                    R(0), R(1))

\* The smoothing of map_value with the blend applied for every alpha
SmoothBlendOnly(self, raw) ==
    RAdd(RMul(self.smoothing_alpha, raw),
         RMul(RSub(R(1), self.smoothing_alpha), self._smoothed))

\* The smoothing of map_value (lines 76-81) applied to raw
Smooth(self, raw) ==
    IF RLe(self.smoothing_alpha, R(0)) THEN raw
    ELSE IF RLe(R(1), self.smoothing_alpha) THEN raw
    ELSE RAdd(RMul(self.smoothing_alpha, raw),
              RMul(RSub(R(1), self.smoothing_alpha), self._smoothed))

\* map_value with the unclamped ramp
map_value_noclamp(self, source_value) ==
    LET raw == RampRawNoClamp(self, source_value)
        smoothed == Smooth(self, raw)
    IN  [self |-> [self EXCEPT !._smoothed = smoothed],
         raw |-> raw, out |-> smoothed]

\* PostureSignalMapper.map_value(source_value): the object afterwards, the
\* raw ramp output and the returned value
map_value(self, source_value) ==
    LET raw == RampRaw(self, source_value)
        smoothed == Smooth(self, raw)
    IN  [self |-> [self EXCEPT !._smoothed = smoothed],
         raw |-> raw, out |-> smoothed]

\* Landmarks as compute_face_scale sees them: <<>> for no landmarks, else
\* the four pairs (inner eyes, eyes, mouth corners, ears), each with the
\* lower visibility of its two landmarks and their distance.
Pairs == 1..4

\* The pairs compute_face_scale keeps (lines 111-119)
KeptPairs(landmarks, visibility_threshold) ==
    {i \in Pairs : /\ ~RLt(landmarks[i].vis, visibility_threshold)
                   /\ RLt(Epsilon, landmarks[i].d)}

\* Position of kept pair i in the sorted list of kept distances
SortedIndex(landmarks, kept, i) ==
    Cardinality({j \in kept :
        \/ RLt(landmarks[j].d, landmarks[i].d)
        \/ (landmarks[j].d = landmarks[i].d /\ j < i)})

\* compute_face_scale(landmarks, visibility_threshold): the median kept
\* distance, distances[len(distances) // 2], or None
compute_face_scale(landmarks, visibility_threshold) ==
    IF landmarks = <<>> THEN None
    ELSE LET kept == KeptPairs(landmarks, visibility_threshold) IN
         IF kept = {} THEN None
         ELSE LET i == CHOOSE k \in kept :
                      SortedIndex(landmarks, kept, k) = Cardinality(kept) \div 2
              IN  landmarks[i].d

\* FaceProximitySignalMapper.__init__(config)
FaceProximitySignalMapper_init(config) ==
    [visibility_threshold |-> config.face_proximity.visibility_threshold,
     baseline_samples |-> IF config.face_proximity.baseline_samples < 1 THEN 1
                          ELSE config.face_proximity.baseline_samples,
     baseline_alpha |-> _clamp(config.face_proximity.baseline_alpha,
                               R(0), R(1)),
     activation_ratio |-> config.activation_threshold,
     _baseline |-> None,
     _samples |-> 0,
     _mapper |-> PostureSignalMapper_init(
                    [use_absolute |-> FALSE,
                     activation_threshold |-> config.activation_threshold,
                     full_scale |-> config.full_scale,
                     smoothing_alpha |-> config.smoothing_alpha])]

\* The baseline after one EMA step towards scale (lines 159 and 166)
BaselineEMA(self, scale) ==
    RAdd(RMul(RSub(R(1), self.baseline_alpha), self._baseline),
         RMul(self.baseline_alpha, scale))

\* the same with the baseline following every scale, triggering or not
MapCollectedDrift(self, scale) ==
    LET baseline == RMax(self._baseline, Epsilon)
        ratio == RDiv(scale, baseline)
        r == map_value(self._mapper, ratio)
    IN  [self |-> [self EXCEPT !._baseline = BaselineEMA(self, scale),
                               !._mapper = r.self],
         out |-> r.out]

\* map_landmarks once the baseline is collected (lines 163-168)
MapCollected(self, scale) ==
    LET baseline == RMax(self._baseline, Epsilon)
        ratio == RDiv(scale, baseline)
        r == map_value(self._mapper, ratio)
    IN  [self |-> [self EXCEPT
                    !._baseline = IF RLe(ratio, self.activation_ratio)
                                  THEN BaselineEMA(self, scale) ELSE @,
                    !._mapper = r.self],
         out |-> r.out]

\* map_landmarks without the collection phase of lines 158-161
map_landmarks_nocollect(self, landmarks) ==
    LET scale == compute_face_scale(landmarks, self.visibility_threshold) IN
    IF scale = None
    THEN LET r == map_value(self._mapper, self.activation_ratio)
         IN  [self |-> [self EXCEPT !._mapper = r.self], out |-> r.out]
    ELSE IF self._baseline = None
    THEN [self |-> [self EXCEPT !._baseline = scale, !._samples = 1],
          out |-> R(0)]
    ELSE MapCollected(self, scale)

\* map_landmarks returning 0.0 at once for an undefined scale
map_landmarks_silent(self, landmarks) ==
    LET scale == compute_face_scale(landmarks, self.visibility_threshold) IN
    IF scale = None
    THEN [self |-> self, out |-> R(0)]
    ELSE IF self._baseline = None
    THEN [self |-> [self EXCEPT !._baseline = scale, !._samples = 1],
          out |-> R(0)]
    ELSE IF self._samples < self.baseline_samples
    THEN [self |-> [self EXCEPT !._baseline = BaselineEMA(self, scale),
                                !._samples = @ + 1],
          out |-> R(0)]
    ELSE MapCollected(self, scale)

\* FaceProximitySignalMapper.map_landmarks(landmarks): the object
\* afterwards and the returned value
map_landmarks(self, landmarks) ==
    LET scale == compute_face_scale(landmarks, self.visibility_threshold) IN
    IF scale = None
    THEN LET r == map_value(self._mapper, self.activation_ratio)
         IN  [self |-> [self EXCEPT !._mapper = r.self], out |-> r.out]
    ELSE IF self._baseline = None
    THEN [self |-> [self EXCEPT !._baseline = scale, !._samples = 1],
          out |-> R(0)]
    ELSE IF self._samples < self.baseline_samples
    THEN [self |-> [self EXCEPT !._baseline = BaselineEMA(self, scale),
                                !._samples = @ + 1],
          out |-> R(0)]
    ELSE MapCollected(self, scale)

\* The "software_feedback" section after normalize_config (lines 217-238):
\* threshold and full_scale are any two floats, smoothing_alpha any float,
\* baseline_samples at least 1.
FeedbackRamps ==
    { <<Q(11, 10), Q(13, 10)>>, <<Q(13, 10), Q(11, 10)>>,
      <<Q(-1, 2), Q(1, 2)>> }

SmoothingAlphas == {R(0), Q(1, 4), Q(3, 2)}

MaxSamples == 2

MaxFbCalls == 3

FeedbackConfig(ramp, alpha, use_absolute, samples) ==
    [use_absolute |-> use_absolute,
     activation_threshold |-> ramp[1],
     full_scale |-> ramp[2],
     smoothing_alpha |-> alpha,
     face_proximity |-> [visibility_threshold |-> Q(1, 2),
                         baseline_samples |-> samples,
                         baseline_alpha |-> Q(1, 2)]]

FeedbackConfigs ==
    { FeedbackConfig(c[1], c[2], c[3], c[4]) :
        c \in FeedbackRamps \X SmoothingAlphas \X BOOLEAN \X {1, MaxSamples} }

\* Source values handed to PostureSignalMapper.map_value
SourceValues == {Q(-3, 2), R(0), Q(6, 5), Q(3, 2)}

\* A face of size s as the pose backend reports it: inner eyes s apart, eyes
\* 1.2 s, mouth corners 0.9 s, ears 2 s; vis[i] is the visibility of pair i.
Face(s, vis) ==
    [i \in Pairs |->
        [vis |-> vis[i],
         d |-> IF i = 1 THEN s
               ELSE IF i = 2 THEN RMul(Q(6, 5), s)
               ELSE IF i = 3 THEN RMul(Q(9, 10), s)
               ELSE RMul(R(2), s)]]

AllVisible == [i \in Pairs |-> R(1)]

\* Landmark inputs of map_landmarks: none at all, a face with no pair
\* visible, a face with its ears hidden, and fully visible faces of three
\* sizes (face scales 0.12, 0.156 and 0.24).
LandmarkInputs ==
    { <<>>,
      Face(Q(1, 10), [i \in Pairs |-> R(0)]),
      Face(Q(1, 10), [i \in Pairs |-> IF i = 4 THEN Q(1, 5) ELSE R(1)]),
      Face(Q(1, 10), AllVisible),
      Face(Q(13, 100), AllVisible),
      Face(Q(1, 5), AllVisible) }

NoCall ==
    [op |-> "none", value |-> None, scale |-> None, raw |-> None,
     out |-> None, nth |-> 0, base_before |-> None]

\* Visibilities of a pair's less visible landmark: below, at and above the
\* default visibility_threshold of 0.5
PairVisibilities == {Q(2, 5), Q(1, 2), R(1)}

\* Distances of the four pairs: the face of size 0.1, the same with the
\* inner eyes as far apart as the eyes, and with the mouth corners on one
\* point
PairDistances ==
    { <<Q(1, 10), Q(3, 25), Q(9, 100), Q(1, 5)>>,
      <<Q(3, 25), Q(3, 25), Q(9, 100), Q(1, 5)>>,
      <<Q(1, 10), Q(3, 25), R(0), Q(1, 5)>> }

\* Landmark lists handed to compute_face_scale
FaceScaleInputs ==
    {<<>>} \cup
    { [i \in Pairs |-> [vis |-> vis[i], d |-> d[i]]] :
        vis \in [Pairs -> PairVisibilities], d \in PairDistances }

FaceScaleIdle ==
    /\ fs_in = [landmarks |-> <<>>, visibility_threshold |-> Q(1, 2)]
    /\ fs_out = None
    /\ fs_done = FALSE

\* The two mappers as constructed from fb_cfg, no call made yet
MappersFresh ==
    /\ psm = PostureSignalMapper_init(fb_cfg)
    /\ fpm = FaceProximitySignalMapper_init(fb_cfg)
    /\ fb_last = NoCall
    /\ fb_counts = [map_value |-> 0, valid |-> 0]
    /\ fb_calls = 0

FeedbackFresh ==
    /\ MappersFresh
    /\ FaceScaleIdle

\* DEFAULT_CONFIG["software_feedback"]
FeedbackIdle ==
    /\ fb_cfg = [use_absolute |-> FALSE,
                 activation_threshold |-> Q(105, 100),
                 full_scale |-> Q(125, 100),
                 smoothing_alpha |-> Q(1, 4),
                 face_proximity |-> [visibility_threshold |-> Q(1, 2),
                                     baseline_samples |-> 20,
                                     baseline_alpha |-> Q(1, 5)]]
    /\ FeedbackFresh

\* The software_feedback section whose ramp is the hunch_push ramp of the
\* mapping section cfg, its other keys at their defaults
FeedbackLike(cfg) ==
    [use_absolute |-> FALSE,
     activation_threshold |-> cfg.hunch_push.activation_threshold,
     full_scale |-> cfg.hunch_push.full_scale,
     smoothing_alpha |-> Q(1, 4),
     face_proximity |-> [visibility_threshold |-> Q(1, 2),
                         baseline_samples |-> 20,
                         baseline_alpha |-> Q(1, 5)]]

\* psm.map_value(source_value)
PostureMapValue ==
    /\ fb_calls < MaxFbCalls
    /\ \E source_value \in SourceValues :
        \E r \in {map_value(psm, source_value)} :
            /\ psm' = r.self
            /\ fb_last' = [op |-> "map_value", value |-> source_value,
                           scale |-> None, raw |-> r.raw, out |-> r.out,
                           nth |-> fb_counts.map_value + 1,
                           base_before |-> None]
    /\ fb_counts' = [fb_counts EXCEPT !.map_value = @ + 1]
    /\ fb_calls' = fb_calls + 1
    /\ UNCHANGED <<fb_cfg, fpm>>
    /\ UNCHANGED faceVars
    /\ UNCHANGED <<normVars, mapperVars, actVars, mainVars, emaVars, cfgVars,
                 metVars, smVars>>

\* compute_face_scale(landmarks, visibility_threshold)
ComputeFaceScale ==
    /\ ~fs_done
    /\ fs_out' = compute_face_scale(fs_in.landmarks,
                                    fs_in.visibility_threshold)
    /\ fs_done' = TRUE
    /\ UNCHANGED <<fs_in, fb_cfg, psm, fpm, fb_last, fb_counts, fb_calls>>
    /\ UNCHANGED <<normVars, mapperVars, actVars, mainVars, emaVars, cfgVars,
                 metVars, smVars>>

\* fpm.map_landmarks(landmarks); nth counts the calls that carried a valid
\* face scale
FaceMapLandmarks ==
    /\ fb_calls < MaxFbCalls
    /\ \E landmarks \in LandmarkInputs :
        LET scale == compute_face_scale(landmarks, fpm.visibility_threshold)
            valid == IF scale = None THEN 0 ELSE 1
        IN  \E r \in {map_landmarks(fpm, landmarks)} :
                /\ fpm' = r.self
                /\ fb_last' = [op |-> "map_landmarks", value |-> None,
                               scale |-> scale, raw |-> None, out |-> r.out,
                               nth |-> fb_counts.valid + valid,
                               base_before |-> fpm._baseline]
                /\ fb_counts' = [fb_counts EXCEPT !.valid = @ + valid]
    /\ fb_calls' = fb_calls + 1
    /\ UNCHANGED <<fb_cfg, psm>>
    /\ UNCHANGED faceVars
    /\ UNCHANGED <<normVars, mapperVars, actVars, mainVars, emaVars, cfgVars,
                 metVars, smVars>>

----------------------------------------------------------------------------
(* filter.py: EMAFilter                                                    *)

\* EMAFilter.update with the two weights exchanged
EMAFilter_update_swapped(alpha, current, value) ==
    IF current = None THEN value
    ELSE RAdd(RMul(RSub(R(1), alpha), value), RMul(alpha, current))

\* EMAFilter.update(value, _dt): the new self.value, which is returned
EMAFilter_update(alpha, current, value) ==
    IF current = None THEN value
    ELSE RAdd(RMul(alpha, value), RMul(RSub(R(1), alpha), current))

\* metrics.smoothing.alpha after normalize_config (line 275): any float
EmaAlphas == {R(0), Q(1, 5), R(1), Q(3, 2)}

\* Metric values (degrees) fed to the filter
EmaInputs == {R(-10), R(0), R(10)}

MaxEmaCalls == 4

\* EMAFilter.__init__(alpha)
EmaFresh ==
    /\ ema_value = None
    /\ ema_in = None
    /\ ema_prev = None
    /\ ema_calls = 0

EmaIdle ==
    /\ ema_alpha = Q(1, 5)
    /\ EmaFresh

\* EMAFilter.update(value, dt)
EmaUpdate ==
    /\ ema_calls < MaxEmaCalls
    /\ \E value \in EmaInputs :
        /\ ema_value' = EMAFilter_update(ema_alpha, ema_value, value)
        /\ ema_in' = value
    /\ ema_prev' = ema_value
    /\ ema_calls' = ema_calls + 1
    /\ UNCHANGED ema_alpha
    /\ UNCHANGED <<normVars, mapperVars, actVars, mainVars, fbVars, cfgVars,
                 metVars, smVars>>

----------------------------------------------------------------------------
(* config.py: normalize_config on the "mapping" and "servo" sections. A    *)
(* list that is missing (None) and an empty list take the same path in     *)
(* every statement, so both are the empty sequence here.                   *)

\* _ensure_list without its final slice value[:count]
_ensure_list_noslice(value, count, fill) ==
    [i \in 1..(IF Len(value) > count THEN Len(value) ELSE count) |->
        IF i <= Len(value) THEN value[i] ELSE fill]

\* _ensure_list(value, count, fill)
_ensure_list(value, count, fill) ==
    [i \in 1..count |-> IF i <= Len(value) THEN value[i] ELSE fill]

\* _default_weights(count); position i is 1-based here
_default_weights(count) ==
    IF count <= 0 THEN <<>>
    ELSE IF count = 1 THEN <<R(1)>>
    ELSE LET mid == Q(count - 1, 2)
             span == RMax(mid, R(1))
         IN  [i \in 1..count |->
                 RAdd(Q(2, 10),
                      RMul(Q(8, 10),
                           RSub(R(1), RDiv(RAbs(RSub(R(i - 1), mid)),
                                           span))))]

NoStart == [some |-> FALSE, v |-> 0]

\* normalize_config(config), lines 157-200: the repaired fields
normalize_config(config) ==
    LET segments == IF config.segments <= 0 THEN 1 ELSE config.segments
        weights == _ensure_list(IF config.weights = <<>>
                                THEN _default_weights(segments)
                                ELSE config.weights, segments, Q(1, 2))
        upper_weights == _ensure_list(IF config.upper_weights = <<>>
                                      THEN weights
                                      ELSE config.upper_weights,
                                      segments, Q(1, 2))
        upper_start == config.upper_segment_start
    IN  [segments |-> segments,
         weights |-> weights,
         upper_weights |-> upper_weights,
         neutral_angles |-> _ensure_list(config.neutral_angles, segments,
                                         R(90)),
         min_angles |-> _ensure_list(config.min_angles, segments, R(30)),
         max_angles |-> _ensure_list(config.max_angles, segments, R(150)),
         directions |-> _ensure_list(config.directions, segments, R(1)),
         upper_segment_start |->
            IF ~upper_start.some THEN segments \div 2
            ELSE IF upper_start.v > segments - 1
                 THEN (IF segments - 1 < 0 THEN 0 ELSE segments - 1)
            ELSE IF upper_start.v < 0 THEN 0
            ELSE upper_start.v,
         channels |->
            IF Len(config.channels) = 0 \/ Len(config.channels) < segments
            THEN [i \in 1..segments |-> i - 1]
            ELSE [i \in 1..segments |-> config.channels[i]]]

MaxSegments == 3

MaxLen == 4

\* Array lengths in the raw configuration: missing or empty, one entry, and
\* MaxLen entries
RawLens == {0, 1, MaxLen}

Fill(n, v) == [i \in 1..n |-> v]

\* Raw configurations: min_angles, max_angles and directions share their
\* length (they pass through the same _ensure_list call shape).
RawConfigs ==
    { [segments |-> c[1],
       weights |-> Fill(c[2], Q(7, 10)),
       upper_weights |-> Fill(c[3], Q(3, 10)),
       neutral_angles |-> Fill(c[4], R(45)),
       min_angles |-> Fill(c[5], R(10)),
       max_angles |-> Fill(c[5], R(170)),
       directions |-> Fill(c[5], R(-1)),
       channels |-> [i \in 1..c[6] |-> 8 + i],
       upper_segment_start |-> c[7]] :
        c \in (-1..MaxSegments) \X RawLens \X RawLens \X RawLens \X RawLens
              \X RawLens
              \X ({NoStart} \cup {[some |-> TRUE, v |-> u] :
                                     u \in {-2, 1, MaxLen + 3}}) }

\* DEFAULT_CONFIG: 8 segments, every array of length 8
ConfigIdle ==
    /\ cfg_in = [segments |-> 8,
                 weights |-> <<Q(2, 10), Q(4, 10), Q(6, 10), Q(8, 10),
                               Q(8, 10), Q(6, 10), Q(4, 10), Q(2, 10)>>,
                 upper_weights |-> <<Q(1, 10), Q(2, 10), Q(4, 10), Q(6, 10),
                                     Q(8, 10), Q(8, 10), Q(6, 10), Q(4, 10)>>,
                 neutral_angles |-> Fill(8, R(90)),
                 min_angles |-> Fill(8, R(30)),
                 max_angles |-> Fill(8, R(150)),
                 directions |-> Fill(8, R(1)),
                 channels |-> [i \in 1..8 |-> i - 1],
                 upper_segment_start |-> [some |-> TRUE, v |-> 4]]
    /\ cfg_out = cfg_in
    /\ cfg_done = FALSE

\* normalize_config(config) on the configuration drawn at the start
NormalizeConfig ==
    /\ ~cfg_done
    /\ cfg_done' = TRUE
    /\ cfg_out' = normalize_config(cfg_in)
    /\ UNCHANGED cfg_in
    /\ UNCHANGED <<normVars, mapperVars, actVars, mainVars, fbVars, emaVars,
                 metVars, smVars>>

----------------------------------------------------------------------------
(* metrics.py: compute_metrics.  Only the six pose landmarks the function  *)
(* reads are kept, in the order below; a landmark is a record               *)
(* [x, y, visibility] whose visibility is None when the attribute is        *)
(* missing.  acos and atan2 have no exact rational value: a resolved metric *)
(* is kept as its sign, [known |-> TRUE, sgn |-> -1, 0 or 1], and an        *)
(* unresolved one (Python None) is Unknown.                                 *)

left_ear == 1
right_ear == 2
left_shoulder == 3
right_shoulder == 4
left_hip == 5
right_hip == 6

Unknown == [known |-> FALSE, sgn |-> 0]

Known(sgn) == [known |-> TRUE, sgn |-> sgn]

RSign(a) == IF RIsZero(a) THEN 0 ELSE IF RLt(a, R(0)) THEN -1 ELSE 1

\* sign of _angle_between(v1, v2): 0 for a zero vector or parallel vectors
AngleBetweenSign(v1, v2) ==
    LET dot == RAdd(RMul(v1[1], v2[1]), RMul(v1[2], v2[2]))
        cross == RSub(RMul(v1[1], v2[2]), RMul(v1[2], v2[1]))
        zero1 == RIsZero(v1[1]) /\ RIsZero(v1[2])
        zero2 == RIsZero(v2[1]) /\ RIsZero(v2[2])
    IN  IF zero1 \/ zero2 THEN 0
        ELSE IF RIsZero(cross) /\ RLt(R(0), dot) THEN 0
        ELSE 1

\* sign of 180.0 - _angle_between(v1, v2): 0 for opposite vectors
ForwardSign(v1, v2) ==
    LET dot == RAdd(RMul(v1[1], v2[1]), RMul(v1[2], v2[2]))
        cross == RSub(RMul(v1[1], v2[2]), RMul(v1[2], v2[1]))
        zero1 == RIsZero(v1[1]) /\ RIsZero(v1[2])
        zero2 == RIsZero(v2[1]) /\ RIsZero(v2[2])
    IN  IF zero1 \/ zero2 THEN 1
        ELSE IF RIsZero(cross) /\ RLt(dot, R(0)) THEN 0
        ELSE 1

_visibility(landmark) ==
    IF landmark.visibility = None THEN R(1) ELSE landmark.visibility

_mean_point(landmarks, index_a, index_b) ==
    <<RDiv(RAdd(landmarks[index_a].x, landmarks[index_b].x), R(2)),
      RDiv(RAdd(landmarks[index_a].y, landmarks[index_b].y), R(2))>>

_choose_side(landmarks, left_index, right_index) ==
    IF RLe(_visibility(landmarks[right_index]),
           _visibility(landmarks[left_index]))
    THEN left_index ELSE right_index

shoulder_vis(landmarks) ==
    RMin(_visibility(landmarks[left_shoulder]),
         _visibility(landmarks[right_shoulder]))

hip_vis(landmarks) ==
    RMin(_visibility(landmarks[left_hip]), _visibility(landmarks[right_hip]))

\* lean_deg resolved from the shoulders' visibility alone
lean_deg_ignoring_hips(landmarks, visibility_threshold) ==
    IF RLe(visibility_threshold, shoulder_vis(landmarks))
    THEN LET mid_shoulder == _mean_point(landmarks, left_shoulder,
                                         right_shoulder)
             mid_hip == _mean_point(landmarks, left_hip, right_hip)
             torso_vec == <<RSub(mid_shoulder[1], mid_hip[1]),
                            RSub(mid_shoulder[2], mid_hip[2])>>
             angle == AngleBetweenSign(torso_vec, <<R(0), R(-1)>>)
             lean_sign == IF RLe(R(0), torso_vec[1]) THEN 1 ELSE -1
         IN  Known(lean_sign * angle)
    ELSE Unknown

lean_deg(landmarks, visibility_threshold) ==
    IF RLe(visibility_threshold, shoulder_vis(landmarks))
       /\ RLe(visibility_threshold, hip_vis(landmarks))
    THEN LET mid_shoulder == _mean_point(landmarks, left_shoulder,
                                         right_shoulder)
             mid_hip == _mean_point(landmarks, left_hip, right_hip)
             torso_vec == <<RSub(mid_shoulder[1], mid_hip[1]),
                            RSub(mid_shoulder[2], mid_hip[2])>>
             angle == AngleBetweenSign(torso_vec, <<R(0), R(-1)>>)
             lean_sign == IF RLe(R(0), torso_vec[1]) THEN 1 ELSE -1
         IN  Known(lean_sign * angle)
    ELSE Unknown

\* the upper-body branch of neck_deg, taken when neck_vis is too low
neck_fallback(landmarks, visibility_threshold, neck_side, shoulder_side) ==
    LET upper_body_vis ==
            RMin(RMin(_visibility(landmarks[neck_side]),
                      _visibility(landmarks[shoulder_side])),
                 RMin(_visibility(landmarks[left_shoulder]),
                      _visibility(landmarks[right_shoulder])))
        ear == landmarks[neck_side]
        shoulder == landmarks[shoulder_side]
        shoulder_span == RAbs(RSub(landmarks[right_shoulder].x,
                                   landmarks[left_shoulder].x))
        vertical0 == RAbs(RSub(shoulder.y, ear.y))
        vertical1 == IF RLt(vertical0, Q(1, 10000)) THEN shoulder_span
                     ELSE vertical0
        vertical_reference == RMax(vertical1, Q(1, 10000))
        \* atan2(a, b) with a >= 0 and b > 0 is 0 exactly when a is 0
        forward == IF RIsZero(RAbs(RSub(ear.x, shoulder.x))) THEN 0 ELSE 1
        sign == IF RLe(R(0), RSub(ear.x, shoulder.x)) THEN 1 ELSE -1
    IN  IF RLe(visibility_threshold, upper_body_vis)
        THEN Known(sign * forward)
        ELSE Unknown

\* the same branch entered without looking at the flag
neck_deg_always_fallback(landmarks, visibility_threshold, allow_upper_body_neck_fallback) ==
    LET neck_side == _choose_side(landmarks, left_ear, right_ear)
        shoulder_side == IF neck_side = left_ear THEN left_shoulder
                         ELSE right_shoulder
        hip_side == IF neck_side = left_ear THEN left_hip ELSE right_hip
        neck_vis == RMin(RMin(_visibility(landmarks[neck_side]),
                              _visibility(landmarks[shoulder_side])),
                         _visibility(landmarks[hip_side]))
        ear == landmarks[neck_side]
        shoulder == landmarks[shoulder_side]
        hip == landmarks[hip_side]
        v1 == <<RSub(ear.x, shoulder.x), RSub(ear.y, shoulder.y)>>
        v2 == <<RSub(hip.x, shoulder.x), RSub(hip.y, shoulder.y)>>
        sign == IF RLe(R(0), v1[1]) THEN 1 ELSE -1
    IN  IF RLe(visibility_threshold, neck_vis)
        THEN Known(sign * ForwardSign(v1, v2))
        ELSE neck_fallback(landmarks, visibility_threshold, neck_side,
                           shoulder_side)

neck_deg(landmarks, visibility_threshold, allow_upper_body_neck_fallback) ==
    LET neck_side == _choose_side(landmarks, left_ear, right_ear)
        shoulder_side == IF neck_side = left_ear THEN left_shoulder
                         ELSE right_shoulder
        hip_side == IF neck_side = left_ear THEN left_hip ELSE right_hip
        neck_vis == RMin(RMin(_visibility(landmarks[neck_side]),
                              _visibility(landmarks[shoulder_side])),
                         _visibility(landmarks[hip_side]))
        ear == landmarks[neck_side]
        shoulder == landmarks[shoulder_side]
        hip == landmarks[hip_side]
        v1 == <<RSub(ear.x, shoulder.x), RSub(ear.y, shoulder.y)>>
        v2 == <<RSub(hip.x, shoulder.x), RSub(hip.y, shoulder.y)>>
        sign == IF RLe(R(0), v1[1]) THEN 1 ELSE -1
    IN  IF RLe(visibility_threshold, neck_vis)
        THEN Known(sign * ForwardSign(v1, v2))
        ELSE IF allow_upper_body_neck_fallback
        THEN neck_fallback(landmarks, visibility_threshold, neck_side,
                           shoulder_side)
        ELSE Unknown

\* atan2(dy, dx) is 0 for dy = 0 and dx >= 0, and 180 for dy = 0 and dx < 0
tilt_deg(landmarks, visibility_threshold) ==
    IF RLe(visibility_threshold, shoulder_vis(landmarks))
    THEN LET dx == RSub(landmarks[right_shoulder].x,
                        landmarks[left_shoulder].x)
             dy == RSub(landmarks[right_shoulder].y,
                        landmarks[left_shoulder].y)
         IN  Known(IF RIsZero(dy)
                   THEN (IF RLt(dx, R(0)) THEN 1 ELSE 0)
                   ELSE RSign(dy))
    ELSE Unknown

compute_metrics(landmarks, visibility_threshold, allow_upper_body_neck_fallback) ==
    IF landmarks = <<>>
    THEN [lean_deg |-> Unknown, neck_deg |-> Unknown, tilt_deg |-> Unknown]
    ELSE [lean_deg |-> lean_deg(landmarks, visibility_threshold),
          neck_deg |-> neck_deg(landmarks, visibility_threshold,
                                allow_upper_body_neck_fallback),
          tilt_deg |-> tilt_deg(landmarks, visibility_threshold)]

Landmark(x, y, visibility) == [x |-> x, y |-> y, visibility |-> visibility]

\* visibilities below and at the threshold, and a missing attribute (1.0)
Visibilities == {Q(1, 10), Q(1, 2), None}

\* positions of ears, shoulders and hips (x to the right, y downwards):
\* an upright body seen from the side with the head ahead of the shoulder,
\* the same with the head behind it, the head straight above the shoulder,
\* and a head at shoulder height
Poses ==
    { <<<<Q(0, 1), Q(0, 1)>>, <<Q(67, 100), Q(40, 100)>>,
        <<Q(45, 100), Q(58, 100)>>, <<Q(55, 100), Q(58, 100)>>,
        <<Q(45, 100), Q(90, 100)>>, <<Q(55, 100), Q(90, 100)>>>>,
      <<<<Q(30, 100), Q(40, 100)>>, <<Q(50, 100), Q(40, 100)>>,
        <<Q(45, 100), Q(58, 100)>>, <<Q(55, 100), Q(60, 100)>>,
        <<Q(50, 100), Q(90, 100)>>, <<Q(62, 100), Q(90, 100)>>>>,
      <<<<Q(45, 100), Q(40, 100)>>, <<Q(55, 100), Q(40, 100)>>,
        <<Q(45, 100), Q(58, 100)>>, <<Q(55, 100), Q(58, 100)>>,
        <<Q(45, 100), Q(90, 100)>>, <<Q(55, 100), Q(90, 100)>>>>,
      <<<<Q(40, 100), Q(58, 100)>>, <<Q(70, 100), Q(58, 100)>>,
        <<Q(45, 100), Q(58, 100)>>, <<Q(55, 100), Q(58, 100)>>,
        <<Q(0, 1), Q(0, 1)>>, <<Q(0, 1), Q(0, 1)>>>> }

LandmarkLists ==
    {<<>>} \cup
    { [i \in 1..6 |-> Landmark(pose[i][1], pose[i][2], vis[i])] :
        pose \in Poses, vis \in [1..6 -> Visibilities] }

MetricsIdle ==
    /\ cm_in = [landmarks |-> <<>>, visibility_threshold |-> Q(1, 2),
                allow_upper_body_neck_fallback |-> TRUE]
    /\ cm_out = [lean_deg |-> Unknown, neck_deg |-> Unknown,
                 tilt_deg |-> Unknown]
    /\ cm_done = FALSE
    /\ cm_main = cm_out
    /\ cm_main_done = FALSE

\* compute_metrics(landmarks, visibility_threshold, allow_...) on the
\* arguments drawn at the start
ComputeMetrics ==
    /\ ~cm_done
    /\ cm_done' = TRUE
    /\ cm_out' = compute_metrics(cm_in.landmarks, cm_in.visibility_threshold,
                                 cm_in.allow_upper_body_neck_fallback)
    /\ UNCHANGED <<cm_in, cm_main, cm_main_done>>
    /\ UNCHANGED <<normVars, mapperVars, actVars, mainVars, fbVars, emaVars,
                   cfgVars, smVars>>

\* raw_metrics = compute_metrics(landmarks, config["metrics"].get(
\* "visibility_threshold", 0.5)) of main(): two arguments, so that
\* allow_upper_body_neck_fallback takes its default, True; the flag of
\* cm_in stands for config["metrics"]["enable_upper_body_fallback"]
MainComputeMetrics ==
    /\ ~cm_main_done
    /\ cm_main_done' = TRUE
    /\ cm_main' = compute_metrics(cm_in.landmarks, cm_in.visibility_threshold,
                                  TRUE)
    /\ UNCHANGED <<cm_in, cm_out, cm_done>>
    /\ UNCHANGED <<normVars, mapperVars, actVars, mainVars, fbVars, emaVars,
                   cfgVars, smVars>>

----------------------------------------------------------------------------
(* filter.py: OneEuroFilter and MetricSmoother.  math.exp has no exact     *)
(* rational value: a value of last_values is kept as the pair [c, e] that  *)
(* stands for c * exp(-e), c and e rational and e >= 0, so that a decayed  *)
(* value is exact; a value that was never decayed has e = 0.  math.pi is   *)
(* taken as 22/7 in the One-Euro smoothing factor.                         *)

Exact(v) == [c |-> v, e |-> R(0)]

\* held * math.exp(x)
DecayedGrowing(held, x) ==
    IF RIsZero(held.c) THEN held ELSE [c |-> held.c, e |-> RSub(held.e, x)]

\* held * math.exp(-x), x >= 0
Decayed(held, x) ==
    IF RIsZero(held.c) THEN held ELSE [c |-> held.c, e |-> RAdd(held.e, x)]

\* the magnitude of a is at most the magnitude of b, for equal coefficients
\* or a zero one
MagnitudeLe(a, b) ==
    \/ RIsZero(a.c)
    \/ /\ RAbs(a.c) = RAbs(b.c)
       /\ RLe(b.e, a.e)
    \/ /\ RLt(RAbs(a.c), RAbs(b.c))
       /\ RLe(b.e, a.e)

SignOf(a) == IF RIsZero(a.c) THEN 0 ELSE IF RLt(a.c, R(0)) THEN -1 ELSE 1

Pi == Q(22, 7)

\* OneEuroFilter._alpha(cutoff, dt)
_alpha(cutoff, dt) ==
    IF RLe(dt, R(0)) THEN R(1)
    ELSE LET tau == RDiv(R(1), RMul(RMul(R(2), Pi), cutoff))
         IN  RDiv(R(1), RAdd(R(1), RDiv(tau, dt)))

\* the same update started from 0 instead of the first value
OneEuroFilter_update_fromzero(smoothing, self, value, dt) ==
    LET prev == IF self.value = None THEN R(0) ELSE self.value
        dx == RDiv(RSub(value, prev), RMax(dt, Q(1, 1000000)))
        alpha_d == _alpha(smoothing.one_euro_d_cutoff, dt)
        derivative == RAdd(RMul(alpha_d, dx),
                           RMul(RSub(R(1), alpha_d), self.derivative))
        cutoff == RAdd(smoothing.one_euro_min_cutoff,
                       RMul(smoothing.one_euro_beta, RAbs(derivative)))
        alpha == _alpha(cutoff, dt)
    IN  [value |-> RAdd(RMul(alpha, value), RMul(RSub(R(1), alpha), prev)),
         derivative |-> derivative]

\* OneEuroFilter.update(value, dt): the new [value, derivative]; the new
\* value is what the call returns
OneEuroFilter_update(smoothing, self, value, dt) ==
    IF self.value = None
    THEN [value |-> value, derivative |-> self.derivative]
    ELSE LET dx == RDiv(RSub(value, self.value), RMax(dt, Q(1, 1000000)))
             alpha_d == _alpha(smoothing.one_euro_d_cutoff, dt)
             derivative == RAdd(RMul(alpha_d, dx),
                                RMul(RSub(R(1), alpha_d), self.derivative))
             cutoff == RAdd(smoothing.one_euro_min_cutoff,
                            RMul(smoothing.one_euro_beta, RAbs(derivative)))
             alpha == _alpha(cutoff, dt)
         IN  [value |-> RAdd(RMul(alpha, value),
                             RMul(RSub(R(1), alpha), self.value)),
              derivative |-> derivative]

\* the filter classes MetricSmoother.__init__ chooses between
FilterKind(smoothing) ==
    IF ~smoothing.enabled THEN "none"
    ELSE IF smoothing.type = "one_euro" THEN "one_euro"
    ELSE "ema"

\* self.filters[name].update(value, dt): the filter's new state
Filter_update(smoothing, self, value, dt) ==
    IF FilterKind(smoothing) = "one_euro"
    THEN OneEuroFilter_update(smoothing, self, value, dt)
    ELSE [value |-> EMAFilter_update(smoothing.alpha, self.value, value),
          derivative |-> self.derivative]

SmootherMetrics == {"lean_deg", "neck_deg", "tilt_deg"}

\* one round of the loop of MetricSmoother.update with the hold test
\* dropped: every unknown sample after a known one decays
UpdateOneNoHold(config, filter, last_value, last_seen, value, now, dt) ==
    IF value # None
    THEN LET after == IF FilterKind(config.smoothing) = "none" THEN filter
                      ELSE Filter_update(config.smoothing, filter, value, dt)
             filtered == IF FilterKind(config.smoothing) = "none" THEN value
                         ELSE after.value
         IN  [filter |-> after, last_value |-> Exact(filtered),
              last_valid |-> now, output |-> Exact(filtered)]
    ELSE IF last_seen = None
    THEN [filter |-> filter, last_value |-> Exact(R(0)),
          last_valid |-> last_seen, output |-> Exact(R(0))]
    ELSE IF RLt(R(0), config.decay_seconds)
         THEN LET held == Decayed(last_value,
                                  RDiv(dt, config.decay_seconds))
              IN  [filter |-> filter, last_value |-> held,
                   last_valid |-> last_seen, output |-> held]
         ELSE [filter |-> filter, last_value |-> Exact(R(0)),
               last_valid |-> last_seen, output |-> Exact(R(0))]

\* one round of the loop of MetricSmoother.update that also forgets the
\* filter's state on an unknown sample after a known one
UpdateOneResetsFilter(config, filter, last_value, last_seen, value, now, dt) ==
    IF value # None
    THEN LET after == IF FilterKind(config.smoothing) = "none" THEN filter
                      ELSE Filter_update(config.smoothing, filter, value, dt)
             filtered == IF FilterKind(config.smoothing) = "none" THEN value
                         ELSE after.value
         IN  [filter |-> after, last_value |-> Exact(filtered),
              last_valid |-> now, output |-> Exact(filtered)]
    ELSE IF last_seen = None
    THEN [filter |-> filter, last_value |-> Exact(R(0)),
          last_valid |-> last_seen, output |-> Exact(R(0))]
    ELSE LET age == RSub(now, last_seen)
             fresh == [value |-> None, derivative |-> R(0)]
         IN  IF RLe(age, config.hold_seconds)
             THEN [filter |-> fresh, last_value |-> last_value,
                   last_valid |-> last_seen, output |-> last_value]
             ELSE IF RLt(R(0), config.decay_seconds)
             THEN LET held == Decayed(last_value,
                                      RDiv(dt, config.decay_seconds))
                  IN  [filter |-> fresh, last_value |-> held,
                       last_valid |-> last_seen, output |-> held]
             ELSE [filter |-> fresh, last_value |-> Exact(R(0)),
                   last_valid |-> last_seen, output |-> Exact(R(0))]

\* one round of the loop of MetricSmoother.update, for one metric name
UpdateOne(config, filter, last_value, last_seen, value, now, dt) ==
    IF value # None
    THEN LET after == IF FilterKind(config.smoothing) = "none" THEN filter
                      ELSE Filter_update(config.smoothing, filter, value, dt)
             filtered == IF FilterKind(config.smoothing) = "none" THEN value
                         ELSE after.value
         IN  [filter |-> after, last_value |-> Exact(filtered),
              last_valid |-> now, output |-> Exact(filtered)]
    ELSE IF last_seen = None
    THEN [filter |-> filter, last_value |-> Exact(R(0)),
          last_valid |-> last_seen, output |-> Exact(R(0))]
    ELSE LET age == RSub(now, last_seen)
         IN  IF RLe(age, config.hold_seconds)
             THEN [filter |-> filter, last_value |-> last_value,
                   last_valid |-> last_seen, output |-> last_value]
             ELSE IF RLt(R(0), config.decay_seconds)
             THEN LET held == Decayed(last_value,
                                      RDiv(dt, config.decay_seconds))
                  IN  [filter |-> filter, last_value |-> held,
                       last_valid |-> last_seen, output |-> held]
             ELSE [filter |-> filter, last_value |-> Exact(R(0)),
                   last_valid |-> last_seen, output |-> Exact(R(0))]

\* one timestamp for all three metrics: the latest valid sample of any
LastSeenOfAny(last_valid, name) ==
    IF \A other \in SmootherMetrics : last_valid[other] = None THEN None
    ELSE CHOOSE latest \in {last_valid[other] : other \in SmootherMetrics} \ {None} :
             \A other \in SmootherMetrics :
                 last_valid[other] = None \/ RLe(last_valid[other], latest)

\* last_seen = self.last_valid[name]
LastSeen(last_valid, name) == last_valid[name]

\* the loop of MetricSmoother.update over the three metric names
UpdateAll(config, filters, last_values, last_valid, metrics, now, dt) ==
    [name \in SmootherMetrics |->
        UpdateOne(config, filters[name], last_values[name],
                  LastSeen(last_valid, name), metrics[name], now, dt)]

\* the dt MetricSmoother.update computes from now and self.last_time
SmootherDt(last, now) ==
    IF last = None THEN R(0) ELSE RMax(R(0), RSub(now, last))

\* the "smoothing" section: the default alpha; One-Euro cutoffs of 7/44 Hz
\* (tau = 1 s with pi = 22/7) and beta = 0, which keep the smoothing
\* factors at dt / (dt + 1)
SmoothingSection(enabled, type) ==
    [enabled |-> enabled, type |-> type, alpha |-> Q(1, 5),
     one_euro_min_cutoff |-> Q(7, 44), one_euro_beta |-> R(0),
     one_euro_d_cutoff |-> Q(7, 44)]

\* the "metrics" configuration sections: the default one, the One-Euro
\* filter, no filter with a decay that snaps to 0, and no hold at all
SmootherConfigs ==
    { [smoothing |-> SmoothingSection(TRUE, "ema"),
       hold_seconds |-> Q(1, 2), decay_seconds |-> Q(3, 2)],
      [smoothing |-> SmoothingSection(TRUE, "one_euro"),
       hold_seconds |-> Q(1, 2), decay_seconds |-> Q(3, 2)],
      [smoothing |-> SmoothingSection(FALSE, "ema"),
       hold_seconds |-> Q(1, 2), decay_seconds |-> R(0)],
      [smoothing |-> SmoothingSection(TRUE, "ema"),
       hold_seconds |-> R(0), decay_seconds |-> R(-1)] }

\* MetricValues handed to update: each metric known or unknown
SmootherSamples ==
    { [lean_deg |-> None, neck_deg |-> None, tilt_deg |-> None],
      [lean_deg |-> R(2), neck_deg |-> None, tilt_deg |-> None],
      [lean_deg |-> None, neck_deg |-> R(2), tilt_deg |-> R(-4)],
      [lean_deg |-> R(2), neck_deg |-> R(-4), tilt_deg |-> R(-4)],
      [lean_deg |-> None, neck_deg |-> R(-4), tilt_deg |-> R(2)],
      [lean_deg |-> R(-4), neck_deg |-> R(2), tilt_deg |-> None] }

\* seconds between two update calls
SmootherSteps == {R(0), Q(1, 2), R(1)}

\* time.time() at the first update call
SmootherStart == R(10)

MaxSmootherCalls == 3

\* MetricSmoother.__init__(config)
SmootherFresh ==
    /\ sm_filters = [name \in SmootherMetrics |->
                        [value |-> None, derivative |-> R(0)]]
    /\ sm_last_values = [name \in SmootherMetrics |-> Exact(R(0))]
    /\ sm_last_valid = [name \in SmootherMetrics |-> None]
    /\ sm_last_time = None
    /\ sm_in = [metrics |-> [lean_deg |-> None, neck_deg |-> None,
                             tilt_deg |-> None],
                now |-> None, dt |-> R(0)]
    /\ sm_out = [name \in SmootherMetrics |-> Exact(R(0))]
    /\ sm_valid_out = [name \in SmootherMetrics |-> Exact(R(0))]
    /\ sm_known = [name \in SmootherMetrics |-> 0]
    /\ sm_calls = 0
    /\ sm2_filters = sm_filters
    /\ sm2_last_values = sm_last_values
    /\ sm2_last_valid = sm_last_valid
    /\ sm2_in = sm_in.metrics
    /\ sm2_out = sm_out
    /\ sm2_same = [name \in SmootherMetrics |-> TRUE]

SmootherIdle ==
    /\ sm_cfg = [smoothing |-> SmoothingSection(TRUE, "ema"),
                 hold_seconds |-> Q(1, 2), decay_seconds |-> Q(3, 2)]
    /\ SmootherFresh

\* MetricSmoother.update(metrics, now)
SmootherUpdate ==
    /\ sm_calls < MaxSmootherCalls
    /\ \E metrics \in SmootherSamples :
       \E now \in IF sm_last_time = None THEN {SmootherStart}
                  ELSE {RAdd(sm_last_time, step) : step \in SmootherSteps} :
        LET dt == SmootherDt(sm_last_time, now)
            one == UpdateAll(sm_cfg, sm_filters, sm_last_values,
                             sm_last_valid, metrics, now, dt)
        IN  /\ sm_filters' = [name \in SmootherMetrics |-> one[name].filter]
            /\ sm_last_values' =
                   [name \in SmootherMetrics |-> one[name].last_value]
            /\ sm_last_valid' =
                   [name \in SmootherMetrics |-> one[name].last_valid]
            /\ sm_out' = [name \in SmootherMetrics |-> one[name].output]
            /\ sm_valid_out' =
                   [name \in SmootherMetrics |->
                       IF metrics[name] # None THEN one[name].output
                       ELSE sm_valid_out[name]]
            /\ sm_known' =
                   [name \in SmootherMetrics |->
                       IF metrics[name] # None THEN sm_known[name] + 1
                       ELSE sm_known[name]]
            /\ sm_last_time' = now
            /\ sm_in' = [metrics |-> metrics, now |-> now, dt |-> dt]
    /\ sm_calls' = sm_calls + 1
    /\ UNCHANGED sm_cfg
    /\ UNCHANGED twinVars
    /\ UNCHANGED <<normVars, mapperVars, actVars, mainVars, fbVars, emaVars,
                   cfgVars, metVars>>

\* seconds between two update calls of the pair of smoothers
PairSteps == {Q(1, 2), R(1)}

\* the MetricValues the second smoother is handed
TwinSamples ==
    { [lean_deg |-> None, neck_deg |-> None, tilt_deg |-> None],
      [lean_deg |-> R(2), neck_deg |-> R(-4), tilt_deg |-> R(-4)],
      [lean_deg |-> R(-4), neck_deg |-> R(2), tilt_deg |-> None] }

MaxPairCalls == 2

\* update(metrics, now) of one smoother and update(twin, now) of a second
\* one built from the same configuration
PairUpdate ==
    /\ sm_calls < MaxPairCalls
    /\ \E metrics \in SmootherSamples, twin \in TwinSamples :
       \E now \in IF sm_last_time = None THEN {SmootherStart}
                  ELSE {RAdd(sm_last_time, step) : step \in PairSteps} :
        LET dt == SmootherDt(sm_last_time, now)
            one == UpdateAll(sm_cfg, sm_filters, sm_last_values,
                             sm_last_valid, metrics, now, dt)
            two == UpdateAll(sm_cfg, sm2_filters, sm2_last_values,
                             sm2_last_valid, twin, now, dt)
        IN  /\ sm_filters' = [name \in SmootherMetrics |-> one[name].filter]
            /\ sm_last_values' =
                   [name \in SmootherMetrics |-> one[name].last_value]
            /\ sm_last_valid' =
                   [name \in SmootherMetrics |-> one[name].last_valid]
            /\ sm_out' = [name \in SmootherMetrics |-> one[name].output]
            /\ sm_valid_out' =
                   [name \in SmootherMetrics |->
                       IF metrics[name] # None THEN one[name].output
                       ELSE sm_valid_out[name]]
            /\ sm_known' =
                   [name \in SmootherMetrics |->
                       IF metrics[name] # None THEN sm_known[name] + 1
                       ELSE sm_known[name]]
            /\ sm_last_time' = now
            /\ sm_in' = [metrics |-> metrics, now |-> now, dt |-> dt]
            /\ sm2_filters' = [name \in SmootherMetrics |-> two[name].filter]
            /\ sm2_last_values' =
                   [name \in SmootherMetrics |-> two[name].last_value]
            /\ sm2_last_valid' =
                   [name \in SmootherMetrics |-> two[name].last_valid]
            /\ sm2_out' = [name \in SmootherMetrics |-> two[name].output]
            /\ sm2_in' = twin
            /\ sm2_same' = [name \in SmootherMetrics |->
                               sm2_same[name] /\ metrics[name] = twin[name]]
    /\ sm_calls' = sm_calls + 1
    /\ UNCHANGED sm_cfg
    /\ UNCHANGED <<normVars, mapperVars, actVars, mainVars, fbVars, emaVars,
                   cfgVars, metVars>>

----------------------------------------------------------------------------
(* Specifications: one per component, the other components idle.           *)

InitNormalize ==
    /\ n_values \in MetricValuesSet
    /\ n_calib \in Calibrations
    /\ n_out = [lean |-> None, neck |-> None, tilt |-> None]
    /\ n_done = FALSE
    /\ MapperIdle
    /\ ActuatorIdle
    /\ MainIdle
    /\ FeedbackIdle
    /\ EmaIdle
    /\ ConfigIdle
    /\ MetricsIdle
    /\ SmootherIdle

NextNormalize == Normalize

SpecNormalize == InitNormalize /\ [][NextNormalize]_vars

InitMapper ==
    /\ m_cfg \in MappingConfigs
    /\ MapperFresh
    /\ NormalizeIdle
    /\ ActuatorIdle
    /\ MainIdle
    /\ fb_cfg = FeedbackLike(m_cfg)
    /\ FeedbackFresh
    /\ EmaIdle
    /\ ConfigIdle
    /\ MetricsIdle
    /\ SmootherIdle

NextMapper == MapMetrics

SpecMapper == InitMapper /\ [][NextMapper]_vars

InitActuator ==
    /\ st_cfg \in StepperConfigs
    /\ ActuatorFresh
    /\ NormalizeIdle
    /\ MapperIdle
    /\ MainIdle
    /\ FeedbackIdle
    /\ EmaIdle
    /\ ConfigIdle
    /\ MetricsIdle
    /\ SmootherIdle

NextActuator ==
    \/ CreateServoController
    \/ CreateStepperController
    \/ ServoSetAngles
    \/ DryRunServoSetAngles
    \/ StepperSetAngles
    \/ DryRunStepperSetAngles

SpecActuator == InitActuator /\ [][NextActuator]_vars

InitMain ==
    /\ MainStart
    /\ ActuatorIdle
    /\ NormalizeIdle
    /\ MapperIdle
    /\ FeedbackIdle
    /\ EmaIdle
    /\ ConfigIdle
    /\ MetricsIdle
    /\ SmootherIdle

NextMain ==
    \/ MainCreateCamera
    \/ MainCreatePose
    \/ MainCreateActuator
    \/ LoopTop
    \/ VisionTask
    \/ ActuationTask
    \/ ActuationSkip
    \/ DebugView
    \/ KeyboardInterrupt
    \/ FinallyActuator
    \/ FinallyCamera
    \/ FinallyPose
    \/ FinallyWindows

SpecMain == InitMain /\ [][NextMain]_vars

InitFeedback ==
    /\ fb_cfg \in FeedbackConfigs
    /\ FeedbackFresh
    /\ NormalizeIdle
    /\ MapperIdle
    /\ ActuatorIdle
    /\ MainIdle
    /\ EmaIdle
    /\ ConfigIdle
    /\ MetricsIdle
    /\ SmootherIdle

NextFeedback ==
    \/ PostureMapValue
    \/ FaceMapLandmarks

SpecFeedback == InitFeedback /\ [][NextFeedback]_vars

InitFilter ==
    /\ ema_alpha \in EmaAlphas
    /\ EmaFresh
    /\ NormalizeIdle
    /\ MapperIdle
    /\ ActuatorIdle
    /\ MainIdle
    /\ FeedbackIdle
    /\ ConfigIdle
    /\ MetricsIdle
    /\ SmootherIdle

NextFilter == EmaUpdate

SpecFilter == InitFilter /\ [][NextFilter]_vars

InitConfig ==
    /\ cfg_in \in RawConfigs
    /\ cfg_out = cfg_in
    /\ cfg_done = FALSE
    /\ NormalizeIdle
    /\ MapperIdle
    /\ ActuatorIdle
    /\ MainIdle
    /\ FeedbackIdle
    /\ EmaIdle
    /\ MetricsIdle
    /\ SmootherIdle

NextConfig == NormalizeConfig

SpecConfig == InitConfig /\ [][NextConfig]_vars

InitMetrics ==
    /\ cm_in \in [landmarks : LandmarkLists,
                  visibility_threshold : {Q(1, 2)},
                  allow_upper_body_neck_fallback : BOOLEAN]
    /\ cm_out = [lean_deg |-> Unknown, neck_deg |-> Unknown,
                 tilt_deg |-> Unknown]
    /\ cm_done = FALSE
    /\ cm_main = cm_out
    /\ cm_main_done = FALSE
    /\ NormalizeIdle
    /\ MapperIdle
    /\ ActuatorIdle
    /\ MainIdle
    /\ FeedbackIdle
    /\ EmaIdle
    /\ ConfigIdle
    /\ SmootherIdle

NextMetrics ==
    \/ ComputeMetrics
    \/ MainComputeMetrics

SpecMetrics == InitMetrics /\ [][NextMetrics]_vars

InitSmoother ==
    /\ sm_cfg \in SmootherConfigs
    /\ SmootherFresh
    /\ NormalizeIdle
    /\ MapperIdle
    /\ ActuatorIdle
    /\ MainIdle
    /\ FeedbackIdle
    /\ EmaIdle
    /\ ConfigIdle
    /\ MetricsIdle

NextSmoother == SmootherUpdate

SpecSmoother == InitSmoother /\ [][NextSmoother]_vars

\* The mapper called again and again with the metrics of its latest call,
\* one or two seconds after it: the actuation task of main() calls
\* map_metrics once per servo interval for as long as the loop runs.  The
\* calls go on until the time MaxSettleTime, and beyond it for as long as
\* the output is off the target.
MaxSettleTime == 8

SettleSteps == {R(1), R(2)}

\* one configuration per control mode, limited to 10 deg/s
SettleConfigs ==
    { MappingConfig("spine_blend", [neutral |-> R(0), min |-> R(-35),
                                    max |-> R(35)], DefaultHunch, R(10)),
      HunchOnlyConfig(<<>>, <<>>, R(10)) }

\* the loop is still running
SettleRunning ==
    /\ m_calls >= 1
    /\ RLt(m_now, R(MaxSettleTime)) \/ m_out # m_target

SettleCall ==
    /\ SettleRunning
    /\ \E step \in SettleSteps :
        /\ m_target' = StrategyTarget(m_cfg, m_metrics)
        /\ m_out' = MapResult(m_cfg, last_angles, last_time, m_target',
                              RAdd(m_now, step))
        /\ last_angles' = m_out'
        /\ last_time' = RAdd(m_now, step)
        /\ m_now' = RAdd(m_now, step)
    /\ m_prev_now' = m_now
    /\ m_prev_out' = m_out
    /\ m_calls' = m_calls + 1
    /\ UNCHANGED <<m_cfg, m_metrics>>
    /\ UNCHANGED <<normVars, actVars, mainVars, fbVars, emaVars, cfgVars,
                   metVars, smVars>>

\* The schedule of SettleCall: one more call, later, with the same metrics.
\* SettleCall is enabled exactly when SettleRunning holds, and every step of
\* NextSettle that is a SettleTick is a call of map_metrics with the metrics
\* and at a time SettleCall allows.
SettleTick ==
    /\ SettleRunning
    /\ \E step \in SettleSteps : m_now' = RAdd(m_now, step)
    /\ m_calls' = m_calls + 1
    /\ UNCHANGED <<m_cfg, m_metrics>>

InitSettle ==
    /\ m_cfg \in SettleConfigs
    /\ MapperFresh
    /\ NormalizeIdle
    /\ ActuatorIdle
    /\ MainIdle
    /\ fb_cfg = FeedbackLike(m_cfg)
    /\ FeedbackFresh
    /\ EmaIdle
    /\ ConfigIdle
    /\ MetricsIdle
    /\ SmootherIdle

NextSettle ==
    \/ MapMetrics
    \/ SettleCall

\* the servo loop does not stop calling while it runs
InitFaceScale ==
    /\ fs_in \in [landmarks : FaceScaleInputs,
                  visibility_threshold : {Q(1, 2)}]
    /\ fs_out = None
    /\ fs_done = FALSE
    /\ MapperIdle
    /\ fb_cfg = FeedbackLike(m_cfg)
    /\ MappersFresh
    /\ NormalizeIdle
    /\ ActuatorIdle
    /\ MainIdle
    /\ EmaIdle
    /\ ConfigIdle
    /\ MetricsIdle
    /\ SmootherIdle

NextFaceScale == ComputeFaceScale

SpecFaceScale == InitFaceScale /\ [][NextFaceScale]_vars

InitPair == InitSmoother

NextPair == PairUpdate

SpecPair == InitPair /\ [][NextPair]_vars

SpecSettle == InitSettle /\ [][NextSettle]_vars /\ WF_m_calls(SettleTick)

----------------------------------------------------------------------------
(* Claims                                                                  *)

\* C1: for two consecutive map_metrics calls whose timestamps differ by
\* dt > 0, every segment's output differs from the previous call's output by
\* at most max_deg_per_sec * dt.
C1_RateLimited ==
    (m_calls >= 2 /\ RLt(m_prev_now, m_now)) =>
        \A i \in Segs :
            RLe(RAbs(RSub(m_out[i], m_prev_out[i])),
                RMul(m_cfg.max_deg_per_sec, RSub(m_now, m_prev_now)))

HunchSourceIsZero ==
    /\ m_cfg.control_mode = "hunch_push"
    /\ m_calls >= 1
    /\ SourceValue(m_metrics, m_cfg.hunch_push.source) = R(0)

\* the travel is the one _map_hunch_push uses: -180 and 180 where the
\* configuration has no min_angles / max_angles entry
NeutralInTravel(i) ==
    /\ RLe(ArrayAt(m_cfg.min_angles, i, R(-180)), m_cfg.neutral_angles[i])
    /\ RLe(m_cfg.neutral_angles[i], ArrayAt(m_cfg.max_angles, i, R(180)))

\* C10 as stated: in hunch_push mode, for every configuration, a source
\* metric of 0 makes the computed angle of every segment equal its neutral
\* angle.
C10_UprightIsNeutral_Original ==
    HunchSourceIsZero => \A i \in Segs : m_target[i] = m_cfg.neutral_angles[i]

\* C10 amended: in hunch_push mode with activation_threshold >= 0, a source
\* metric of 0 makes the computed angle of every segment whose neutral angle
\* lies in [min, max] equal that neutral angle, and a first call returns it.
C10_UprightIsNeutral ==
    (HunchSourceIsZero /\ RLe(R(0), m_cfg.hunch_push.activation_threshold)) =>
        \A i \in Segs :
            NeutralInTravel(i) =>
                /\ m_target[i] = m_cfg.neutral_angles[i]
                /\ m_calls = 1 => m_out[i] = m_cfg.neutral_angles[i]

\* C10 witness: an upright source with a positive threshold while the other
\* metrics are not zero, the neutral pose inside the travel.
C10_Witness ==
    /\ HunchSourceIsZero
    /\ m_cfg.hunch_push.source = "neck"
    /\ RLt(R(0), m_cfg.hunch_push.activation_threshold)
    /\ m_metrics.lean # R(0)
    /\ \A i \in Segs : NeutralInTravel(i) /\ m_out[i] = m_cfg.neutral_angles[i]

MetricNames == {"lean", "neck", "tilt"}

RawOf(m) ==
    IF m = "lean" THEN n_values.lean_deg
    ELSE IF m = "neck" THEN n_values.neck_deg ELSE n_values.tilt_deg

BaselineOf(m) ==
    IF m = "lean" THEN n_calib.baseline.lean_deg
    ELSE IF m = "neck" THEN n_calib.baseline.neck_deg
    ELSE n_calib.baseline.tilt_deg

ScaleOf(m) ==
    IF m = "lean" THEN n_calib.normalization.lean_deg
    ELSE IF m = "neck" THEN n_calib.normalization.neck_deg
    ELSE n_calib.normalization.tilt_deg

OutOf(m) ==
    IF m = "lean" THEN n_out.lean
    ELSE IF m = "neck" THEN n_out.neck ELSE n_out.tilt

\* C8: every component returned by normalize_metrics lies in [-1, 1], for
\* known and unknown raw values and for positive, negative and zero scales,
\* and an unknown raw value yields 0.
C8_NormalizedInRange ==
    n_done =>
        \A m \in MetricNames :
            /\ RLe(R(-1), OutOf(m)) /\ RLe(OutOf(m), R(1))
            /\ RawOf(m) = None => OutOf(m) = R(0)

\* C8 witness: one call with an unknown metric, a metric clamped at +1 under a
\* negative scale and a metric normalized with a zero scale.
C8_Witness ==
    /\ n_done
    /\ RawOf("lean") # None /\ ScaleOf("lean") = R(0) /\ OutOf("lean") = R(-1)
    /\ RawOf("neck") # None /\ RLt(ScaleOf("neck"), R(0))
    /\ OutOf("neck") = R(1)
    /\ RawOf("tilt") = None

\* C9: for a known raw value with |value - baseline| < deadband the
\* normalized output is exactly 0.
C9_DeadbandZero ==
    n_done =>
        \A m \in MetricNames :
            (RawOf(m) # None
                /\ RLt(RAbs(RSub(RawOf(m), BaselineOf(m))), n_calib.deadband))
            => OutOf(m) = R(0)

\* C9 witness: a known value off its baseline by less than the deadband, and
\* another metric outside the deadband that is not zeroed.
C9_Witness ==
    /\ n_done
    /\ \E m \in MetricNames :
        /\ RawOf(m) # None
        /\ RawOf(m) # BaselineOf(m)
        /\ RLt(RAbs(RSub(RawOf(m), BaselineOf(m))), n_calib.deadband)
        /\ OutOf(m) = R(0)
    /\ \E m \in MetricNames : OutOf(m) # R(0)

----------------------------------------------------------------------------
(* The stepper and servo backends                                          *)

\* floor(max_steps_per_sec * dt) of the latest Drv8825 tick
TickBudget == PyInt(RMul(st_cfg.max_steps_per_sec, st_tick.dt))

\* delta = target_step - position of motor k at the start of the latest tick
TickDelta(k) == st_tick.targets[k].v - st_tick.before[k]

\* The steps issued to motor k in the latest tick, signed by the direction
\* written to its dir pin
SignedIssued(k) ==
    IF st_tick.dir[k] = "HIGH" THEN st_tick.issued[k]
    ELSE IF st_tick.dir[k] = "LOW" THEN 0 - st_tick.issued[k]
    ELSE 0

\* C2: on every Drv8825 set_angles call after the first that returns, each
\* motor with a target is issued exactly min(|delta|, floor(rate * dt)) step
\* pulses, so none when floor(rate * dt) is 0.
C2_StepsAreMinOfDeltaAndBudget ==
    (a_kind = "Drv8825" /\ a_calls >= 2 /\ ~a_raised) =>
        \A k \in Motors :
            st_tick.targets[k].some =>
                st_tick.issued[k] = Min(Abs(TickDelta(k)), TickBudget)

\* C3: in every Drv8825 tick after the first the tracked position of each
\* motor changes by exactly the signed number of steps issued to it.
C3_PositionTracksIssuedSteps ==
    (a_kind = "Drv8825" /\ a_calls >= 2) =>
        \A k \in Motors : _positions[k] - st_tick.before[k] = SignedIssued(k)

\* C5: a Pca9685 set_angles call does not raise whatever the channels do;
\* every channel whose assignment succeeds is commanded with its angle and
\* every failing channel is skipped.
C5_ServoChannelIsolation ==
    (a_kind = "Pca9685" /\ a_calls >= 1) =>
        /\ ~a_raised
        /\ \A c \in Chans :
            /\ sv_outcome[c] = "ok" => sv_written[c] = a_angles[c]
            /\ sv_outcome[c] # "ok" => sv_written[c] = None

\* C5 witness: a call in which the first channel fails with OSError and the
\* last channel, after it, is still commanded with a non-zero angle.
C5_Witness ==
    /\ a_kind = "Pca9685" /\ a_calls >= 1 /\ ~a_raised
    /\ sv_outcome[1] = "OSError" /\ sv_written[1] = None
    /\ sv_outcome[NSeg] = "ok"
    /\ sv_written[NSeg] = a_angles[NSeg] /\ a_angles[NSeg] # R(0)

\* C6: a Drv8825 set_angles call never raises, whatever the GPIO writes do.
C6_StepperNeverRaises ==
    a_kind = "Drv8825" => ~a_raised

ControllerKinds(factory) ==
    IF factory = "servo" THEN {"DryRunServo", "Pca9685"}
    ELSE {"DryRunStepper", "Drv8825"}

DryRunKinds == {"DryRunServo", "DryRunStepper"}

\* C7: a factory call does not raise and returns a controller of its backend
\* (each class has set_angles and close); the controller is the dry-run one
\* when dry_run is set, the backend is disabled or the hardware constructor
\* raised.
C7_FactoriesFallBackToDryRun ==
    a_req.factory # "none" =>
        /\ a_calls = 0 => ~a_raised
        /\ a_kind \in ControllerKinds(a_req.factory)
        /\ (a_req.dry_run \/ ~a_req.enabled \/ a_req.ctor = "raise")
            => a_kind \in DryRunKinds

\* C7 witness: the servo backend enabled, not dry-run, its hardware
\* constructor raised; the factory returned the dry-run controller, which
\* has since taken a set_angles call.
C7_Witness ==
    /\ a_req.factory = "servo" /\ a_req.enabled /\ ~a_req.dry_run
    /\ a_req.ctor = "raise"
    /\ a_kind = "DryRunServo" /\ ~a_raised /\ a_calls >= 1

----------------------------------------------------------------------------
(* main()                                                                  *)

\* C4: when main() is left, every resource that was opened has had close()
\* called on it exactly once.
C4_OpenedClosedExactlyOnce ==
    pc = "exit" =>
        \A r \in Resources : opened[r] => close_calls[r] = 1

----------------------------------------------------------------------------
(* The mapper, continued                                                   *)

\* The source metric of the hunch_push section, as handed to map_metrics
HunchSource(metrics) == SourceValue(metrics, m_cfg.hunch_push.source)

\* C11: in hunch_push mode with use_absolute, a map_metrics call whose
\* source value is the negation of the previous call's computes the same
\* target vector, and returns the same vector when the previous call
\* returned its target (the rate limit did not bite).
C11_AbsoluteSourceSymmetric ==
    [][(/\ m_calls >= 1
        /\ m_calls' = m_calls + 1
        /\ m_cfg.control_mode = "hunch_push"
        /\ m_cfg.hunch_push.use_absolute
        /\ HunchSource(m_metrics') = RNeg(HunchSource(m_metrics)))
       => (/\ m_target' = m_target
           /\ (m_out = m_target => m_out' = m_out))]_vars

\* C11 witness: use_absolute, a negative source value pushing the segments
\* off neutral, returned exactly as the call before it (made with the
\* positive value) returned.
C11_Witness ==
    /\ m_calls >= 2
    /\ m_cfg.control_mode = "hunch_push" /\ m_cfg.hunch_push.use_absolute
    /\ RLt(HunchSource(m_metrics), R(0))
    /\ m_target = _map_hunch_push(m_cfg, [m_metrics EXCEPT
                                            !.neck = RNeg(@), !.lean = RNeg(@)])
    /\ m_out = m_target /\ m_prev_out = m_out
    /\ \E i \in Segs : m_target[i] # m_cfg.neutral_angles[i]

----------------------------------------------------------------------------
(* The software feedback signal mappers                                    *)

\* The latest call was map_landmarks with a valid face scale
ValidFaceCall == fb_last.op = "map_landmarks" /\ fb_last.scale # None

\* C12: each of the first baseline_samples map_landmarks calls that carry a
\* valid face scale returns exactly 0.
C12_CollectionEmitsZero ==
    (ValidFaceCall /\ fb_last.nth <= fpm.baseline_samples)
        => fb_last.out = R(0)

\* C12 witness: the last call of a collection phase of at least two
\* samples, with a face scale at twice the baseline, returned 0.
C12_Witness ==
    /\ ValidFaceCall
    /\ fpm.baseline_samples >= 2 /\ fb_last.nth = fpm.baseline_samples
    /\ fb_last.base_before # None
    /\ fb_last.scale = RMul(R(2), fb_last.base_before)
    /\ fb_last.out = R(0)

\* The latest call came after the collection phase with a face scale of at
\* least baseline * full_scale (the configured full_scale)
ReachedFullScale ==
    /\ ValidFaceCall
    /\ fb_last.nth > fpm.baseline_samples
    /\ RLe(RMul(fb_last.base_before, fb_cfg.full_scale), fb_last.scale)

\* C13 as stated: once the baseline is collected, a call whose scale
\* reaches baseline * full_scale returns more than 0.9, for every
\* smoothing_alpha.
C13_FullScaleEmitsHigh_Original ==
    ReachedFullScale => RLt(Q(9, 10), fb_last.out)

\* smoothing_alpha values for which map_value returns the raw ramp output
SmoothingOff ==
    RLe(fb_cfg.smoothing_alpha, R(0)) \/ RLe(R(1), fb_cfg.smoothing_alpha)

\* C13: once the baseline is collected, a call whose scale reaches
\* baseline * full_scale returns more than 0.9 when smoothing is off
\* (smoothing_alpha <= 0 or >= 1) and the configured full_scale is above the
\* activation_threshold.
C13_FullScaleEmitsHigh ==
    (/\ ReachedFullScale
     /\ SmoothingOff
     /\ RLt(fb_cfg.activation_threshold, fb_cfg.full_scale))
        => RLt(Q(9, 10), fb_last.out)

\* C13 witness: the test's scenario with a collection phase of at least two
\* samples at face scale 0.12, then a face scale of 0.156 = 0.12 * 1.3.
C13_Witness ==
    /\ ReachedFullScale /\ SmoothingOff
    /\ fb_cfg.activation_threshold = Q(11, 10)
    /\ fb_cfg.full_scale = Q(13, 10)
    /\ fpm.baseline_samples >= 2
    /\ fb_last.nth = fpm.baseline_samples + 1
    /\ fb_last.base_before = Q(12, 100)
    /\ fb_last.scale = Q(156, 1000)
    /\ RLt(Q(9, 10), fb_last.out)

\* C15: every value returned by map_value and map_landmarks lies in [0, 1].
C15_IntensityInUnitRange ==
    fb_last.op # "none" =>
        RLe(R(0), fb_last.out) /\ RLe(fb_last.out, R(1))

\* C15 witness: map_landmarks without any visible face pair returned a
\* value strictly between 0 and 1, and the posture mapper has returned from
\* a source value above its full scale.
C15_Witness ==
    /\ fb_last.op = "map_landmarks" /\ fb_last.scale = None
    /\ RLt(R(0), fb_last.out) /\ RLt(fb_last.out, R(1))
    /\ fb_counts.map_value >= 1

\* C16: the first map_value call of a fresh PostureSignalMapper returns
\* that call's raw ramp output.
C16_FirstCallSeedsSmoothing ==
    (fb_last.op = "map_value" /\ fb_last.nth = 1)
        => fb_last.out = fb_last.raw

----------------------------------------------------------------------------
(* The EMA metric filter                                                   *)

\* The latest update met a seeded filter whose value differed from the input
EmaStepTowards ==
    /\ ema_calls >= 2
    /\ ema_prev # None /\ ema_prev # ema_in

\* The latest output is strictly closer to the input than the one before
EmaCloser ==
    RLt(RAbs(RSub(ema_value, ema_in)), RAbs(RSub(ema_prev, ema_in)))

\* The latest output lies on the other side of the input
EmaCrossed ==
    \/ RLt(ema_prev, ema_in) /\ RLt(ema_in, ema_value)
    \/ RLt(ema_in, ema_prev) /\ RLt(ema_value, ema_in)

\* C14 as stated: for any configured alpha, an update of a seeded filter
\* with an input different from its value gives an output strictly closer to
\* the input, never on its other side.
C14_EmaApproaches_Original ==
    EmaStepTowards => (EmaCloser /\ ~EmaCrossed)

\* C14: for 0 < alpha <= 1, an update of a seeded filter with an input
\* different from its value gives an output strictly closer to the input,
\* never on its other side.
C14_EmaApproaches ==
    (EmaStepTowards /\ RLt(R(0), ema_alpha) /\ RLe(ema_alpha, R(1)))
        => (EmaCloser /\ ~EmaCrossed)

\* C14 witness: with alpha 0.2 the third update moved a seeded filter
\* closer to its input without reaching it.
C14_Witness ==
    /\ EmaStepTowards /\ ema_calls >= 3
    /\ ema_alpha = Q(1, 5)
    /\ ema_value # ema_in /\ ema_value # ema_prev
    /\ EmaCloser /\ ~EmaCrossed

----------------------------------------------------------------------------
(* The normalizer with a calibration scale of 0                            *)

\* C17: a metric whose calibration scale is 0 is normalized to 0 for every
\* known raw value.
C17_ZeroScaleEmitsZero ==
    n_done =>
        \A m \in MetricNames :
            (RawOf(m) # None /\ ScaleOf(m) = R(0)) => OutOf(m) = R(0)

----------------------------------------------------------------------------
(* Array lengths after normalize_config                                    *)

\* The lengths of the per-segment arrays of a configuration
SegmentArrayLengths(config) ==
    { Len(config.weights), Len(config.upper_weights),
      Len(config.neutral_angles), Len(config.min_angles),
      Len(config.max_angles), Len(config.directions),
      Len(config.channels) }

\* C19: after normalize_config segments >= 1, each of weights,
\* upper_weights, neutral_angles, min_angles, max_angles, directions and
\* the servo channels has exactly segments entries, and upper_segment_start
\* lies in [0, segments - 1].
C19_ArraysMatchSegments ==
    cfg_done =>
        /\ cfg_out.segments >= 1
        /\ SegmentArrayLengths(cfg_out) = {cfg_out.segments}
        /\ cfg_out.upper_segment_start >= 0
        /\ cfg_out.upper_segment_start <= cfg_out.segments - 1

\* C19 witness: a configuration with a missing array, a shorter one and a
\* longer one, and an upper_segment_start beyond the last segment, has been
\* normalized to two or more segments.
C19_Witness ==
    /\ cfg_done
    /\ cfg_out.segments >= 2
    /\ Len(cfg_in.weights) = 0
    /\ Len(cfg_in.neutral_angles) = 1
    /\ Len(cfg_in.min_angles) > cfg_out.segments
    /\ Len(cfg_in.channels) > cfg_out.segments
    /\ cfg_in.upper_segment_start.some
    /\ cfg_in.upper_segment_start.v > cfg_out.segments - 1
    /\ cfg_out.upper_segment_start = cfg_out.segments - 1
    /\ SegmentArrayLengths(cfg_out) = {cfg_out.segments}

----------------------------------------------------------------------------
(* The spine_blend strategy                                                *)

\* neutral[i] + dir[i]*gain.lean*weight[i]*lean + (the neck term from
\* upper_start on) + dir[i]*gain.tilt*weight[i]*tilt for the latest metrics;
\* i is 1-based, upper_segment_start 0-based
BlendAngle(i) ==
    LET dir == m_cfg.directions[i]
        lean == RMul(RMul(RMul(dir, m_cfg.gain.lean), m_cfg.weights[i]),
                     m_metrics.lean)
        neck == IF i - 1 >= m_cfg.upper_segment_start
                THEN RMul(RMul(RMul(dir, m_cfg.gain.neck),
                               ArrayAt(m_cfg.upper_weights, i,
                                       m_cfg.weights[i])),
                          m_metrics.neck)
                ELSE R(0)
        tilt == RMul(RMul(RMul(dir, m_cfg.gain.tilt), m_cfg.weights[i]),
                     m_metrics.tilt)
    IN  RAdd(RAdd(RAdd(m_cfg.neutral_angles[i], lean), neck), tilt)

\* The pre-rate-limit angle of every segment is BlendAngle clamped to
\* [min[i], max[i]], for a configuration that has min and max angles
BlendFormula ==
    (/\ m_calls >= 1 /\ m_cfg.control_mode = "spine_blend"
     /\ Len(m_cfg.min_angles) = NSeg /\ Len(m_cfg.max_angles) = NSeg)
        => \A i \in Segs :
              m_target[i] = _clamp(BlendAngle(i), m_cfg.min_angles[i],
                                   m_cfg.max_angles[i])

\* The latest call is example A: weights all 1, directions 1, -1, neutral 0,
\* gain.lean 30 and no other gain, lean 0.5, neck = tilt = 0
ExampleA ==
    /\ m_calls >= 1 /\ m_cfg.control_mode = "spine_blend"
    /\ m_cfg.weights = ConstArray(R(1))
    /\ m_cfg.directions = Directions
    /\ m_cfg.neutral_angles = ConstArray(R(0))
    /\ m_cfg.gain = [lean |-> R(30), neck |-> R(0), tilt |-> R(0)]
    /\ m_metrics = Metrics(Q(1, 2), R(0), R(0))

\* The pre-rate-limit angles of the first two segments are 15.0 and -15.0
ExampleAResult == m_target[1] = R(15) /\ m_target[2] = R(-15)

\* C20 as stated: the spine_blend formula, and example A gives 15.0, -15.0
\* for a mapper configured with exactly the listed keys.
C20_SpineBlend_Original ==
    /\ BlendFormula
    /\ ExampleA => ExampleAResult

\* C20: the spine_blend formula; and example A gives 15.0, -15.0 when the
\* mapper is also configured with min_angles <= -15 and max_angles >= 15
\* on its segments.
C20_SpineBlend ==
    /\ BlendFormula
    /\ (/\ ExampleA
        /\ Len(m_cfg.min_angles) = NSeg /\ Len(m_cfg.max_angles) = NSeg
        /\ \A i \in Segs : /\ RLe(m_cfg.min_angles[i], R(-15))
                           /\ RLe(R(15), m_cfg.max_angles[i]))
            => ExampleAResult

\* C20 witness: example A with min_angles -35 and max_angles 35 gave 15.0
\* and -15.0.
C20_Witness ==
    /\ ExampleA
    /\ m_cfg.min_angles = ConstArray(R(-35))
    /\ m_cfg.max_angles = ConstArray(R(35))
    /\ ExampleAResult

----------------------------------------------------------------------------
(* The threshold -> full_scale ramps                                       *)

\* The ramp a PostureSignalMapper evaluates has full_scale above its
\* activation_threshold
RampWidthPositive(self) == RLt(self.activation_threshold, self.full_scale)

\* C18: for every configuration, the full_scale in effect in hunch_push, in
\* the PostureSignalMapper and in the mapper inside the
\* FaceProximitySignalMapper is strictly greater than the
\* activation_threshold in effect.
C18_FullScaleAboveThreshold ==
    /\ RLt(m_cfg.hunch_push.activation_threshold,
           HunchFullScale(m_cfg.hunch_push))
    /\ RampWidthPositive(psm)
    /\ RampWidthPositive(fpm._mapper)

\* C18 witness: with a configured full_scale that is not above the
\* activation_threshold, hunch_push has evaluated its ramp on a source above
\* the threshold and pushed the first segment off neutral, and both signal
\* mappers hold the repaired full_scale.
C18_Witness ==
    /\ m_calls >= 1 /\ m_cfg.control_mode = "hunch_push"
    /\ RLe(m_cfg.hunch_push.full_scale, m_cfg.hunch_push.activation_threshold)
    /\ RLe(fb_cfg.full_scale, fb_cfg.activation_threshold)
    /\ RLt(m_cfg.hunch_push.activation_threshold, RAbs(HunchSource(m_metrics)))
    /\ m_target[1] # m_cfg.neutral_angles[1]
    /\ psm.full_scale = RAdd(fb_cfg.activation_threshold, Epsilon)
    /\ fpm._mapper.full_scale = psm.full_scale

----------------------------------------------------------------------------
(* The hunch_push strategy                                                 *)

\* clamp((s - activation_threshold) / (full_scale - activation_threshold),
\* 0, 1) for the latest metrics, s the transformed source and full_scale the
\* value in effect (above the threshold)
RampOfSource ==
    LET hp == m_cfg.hunch_push
        v == HunchSource(m_metrics)
        s == IF hp.use_absolute THEN RAbs(v) ELSE RMax(R(0), v)
        thr == hp.activation_threshold
        fs == IF RLe(hp.full_scale, thr) THEN RAdd(thr, Epsilon)
              ELSE hp.full_scale
    IN  IF RLe(s, thr) THEN R(0)
        ELSE IF RLe(fs, s) THEN R(1)
        ELSE RDiv(RSub(s, thr), RSub(fs, thr))

\* The pre-rate-limit angle of every segment is neutral + dir * max_push_deg
\* * weight * hunch_amount clamped to [min, max]
HunchFormula ==
    (/\ m_calls >= 1 /\ m_cfg.control_mode = "hunch_push"
     /\ Len(m_cfg.min_angles) = NSeg /\ Len(m_cfg.max_angles) = NSeg)
        => \A i \in Segs :
              m_target[i] =
                _clamp(RAdd(m_cfg.neutral_angles[i],
                            RMul(RMul(RMul(m_cfg.directions[i],
                                           m_cfg.hunch_push.max_push_deg),
                                      m_cfg.weights[i]), RampOfSource)),
                       m_cfg.min_angles[i], m_cfg.max_angles[i])

\* The rate limit did not bite in the latest call: it was the first one, no
\* time had passed, or every segment's step fitted into max_deg_per_sec * dt
RateLimitIdle ==
    \/ m_calls = 1
    \/ ~RLt(m_prev_now, m_now)
    \/ \A i \in Segs :
          RLe(RAbs(RSub(m_target[i], m_prev_out[i])),
              RMul(m_cfg.max_deg_per_sec, RSub(m_now, m_prev_now)))

\* The latest call is example B: activation_threshold 0.1, full_scale 0.8,
\* max_push_deg 30, weights all 1, directions 1, -1, neutral 0, neck 0.8
ExampleB ==
    /\ m_calls >= 1 /\ m_cfg.control_mode = "hunch_push"
    /\ m_cfg.hunch_push = DefaultHunch
    /\ m_cfg.weights = ConstArray(R(1))
    /\ m_cfg.directions = Directions
    /\ m_cfg.neutral_angles = ConstArray(R(0))
    /\ m_metrics.neck = Q(8, 10)

\* C21: the hunch_push formula; and in example B map_metrics returns 30.0
\* and -30.0 for the first two segments when the rate limit does not bite.
C21_HunchPush ==
    /\ HunchFormula
    /\ (ExampleB /\ RateLimitIdle) => (m_out[1] = R(30) /\ m_out[2] = R(-30))

\* C21 witness: the test's scenario, an upright first call and then neck 0.8
\* one second later with max_deg_per_sec 10000, returned 30.0 and -30.0.
C21_Witness ==
    /\ ExampleB /\ m_calls >= 2 /\ RLt(m_prev_now, m_now)
    /\ m_cfg.max_deg_per_sec = R(10000)
    /\ m_cfg.min_angles = ConstArray(R(-35))
    /\ m_prev_out = ConstArray(R(0))
    /\ m_out[1] = R(30) /\ m_out[2] = R(-30)

----------------------------------------------------------------------------
(* The range of the angles map_metrics returns                             *)

\* The configuration has min_angles[i] <= max_angles[i] for every segment
TravelOrdered ==
    /\ Len(m_cfg.min_angles) = NSeg /\ Len(m_cfg.max_angles) = NSeg
    /\ \A i \in Segs : RLe(m_cfg.min_angles[i], m_cfg.max_angles[i])

\* C29: after any sequence of map_metrics calls, in both control modes and
\* whether or not the rate limit bites, every returned angle i lies in
\* [min_angles[i], max_angles[i]] (for min_angles[i] <= max_angles[i]).
C29_AnglesInTravel ==
    (m_calls >= 1 /\ TravelOrdered) =>
        \A i \in Segs : /\ RLe(m_cfg.min_angles[i], m_out[i])
                        /\ RLe(m_out[i], m_cfg.max_angles[i])

\* C29 witness: a rate-limited third call (the returned vector is neither
\* the target nor the previous vector) in spine_blend mode, with a segment
\* strictly inside its travel.
C29_Witness ==
    /\ m_calls >= 3 /\ TravelOrdered
    /\ m_cfg.control_mode = "spine_blend"
    /\ m_out # m_target /\ m_out # m_prev_out
    /\ \E i \in Segs : /\ RLt(m_cfg.min_angles[i], m_out[i])
                       /\ RLt(m_out[i], m_cfg.max_angles[i])

----------------------------------------------------------------------------
(* The stepper's first call and its approach to a constant target          *)

\* round(angle * steps_per_rev * microstep / 360) for motor k and the
\* latest angle vector
TargetSteps(k) ==
    PyRound(RMul(a_angles[st_cfg.angle_index[k] + 1],
                 Q(st_cfg.steps_per_rev * st_cfg.microstep, 360)))

\* Motor k reads an entry of the angle vector
HasTarget(k) ==
    st_cfg.angle_index[k] >= 0 /\ st_cfg.angle_index[k] < Len(a_angles)

\* C27: the first set_angles call of a Drv8825 controller sets the tracked
\* position of each motor to its target step count, issues no step pulse and
\* writes no direction pin, whatever the target and the elapsed time are.
C27_FirstCallSeeds ==
    (a_kind = "Drv8825" /\ a_calls = 1) =>
        /\ ~a_raised
        /\ \A k \in Motors :
            /\ st_tick.issued[k] = 0 /\ st_tick.dir[k] = "none"
            /\ HasTarget(k) => _positions[k] = TargetSteps(k)

\* C27 witness: a first call 450 steps away from the initial position, with
\* time elapsed and a positive step budget, moved nothing.
C27_Witness ==
    /\ a_kind = "Drv8825" /\ a_calls = 1
    /\ TickBudget >= 100
    /\ st_tick.before[1] = 0 /\ _positions[1] = 450
    /\ st_tick.issued[1] = 0 /\ st_tick.dir[1] = "none"

\* C30: in a set_angles call that repeats the previous call's angles with a
\* step budget of at least 1, the distance of every motor to its target does
\* not grow and the remaining delta does not change sign; it shrinks when
\* the call returns and the motor is not at its target; a motor at its
\* target is issued no pulse and stays there. (The distance is a natural
\* number, so the target is reached within |delta| such calls.)
C30_ApproachesTarget ==
    [][(/\ a_kind = "Drv8825" /\ _initialized
        /\ a_calls' = a_calls + 1
        /\ a_angles' = a_angles
        /\ TickBudget' >= 1)
       => \A k \in Motors :
            HasTarget(k) =>
              LET before == TargetSteps(k) - _positions[k]
                  after == TargetSteps(k) - _positions'[k]
              IN  /\ Abs(after) <= Abs(before)
                  /\ before * after >= 0
                  /\ (before # 0 /\ ~a_raised') => Abs(after) < Abs(before)
                  /\ before = 0 => (after = 0 /\ st_tick'.issued[k] = 0)
      ]_vars

\* C30 witness: the third call continues from 100 steps towards a target of
\* 450 steps (so the second call had the same target) and stops short of it
\* or on it.
C30_Witness ==
    /\ a_kind = "Drv8825" /\ a_calls = 3 /\ ~a_raised
    /\ HasTarget(1) /\ TargetSteps(1) = 450
    /\ st_tick.before[1] = 100
    /\ st_tick.issued[1] >= 1
    /\ _positions[1] = 100 + st_tick.issued[1]
    /\ _positions[1] <= 450

----------------------------------------------------------------------------
(* PostureSignalMapper without smoothing                                   *)

\* The latest call was map_value on a mapper configured with
\* smoothing_alpha >= 1
UnsmoothedCall ==
    fb_last.op = "map_value" /\ RLe(R(1), fb_cfg.smoothing_alpha)

\* The ramp of the latest input: 0 up to activation_threshold, 1 from
\* full_scale on, linear in between, on v = |input| or max(0, input); the
\* full_scale is the mapper's attribute (the value in effect)
RampOfInput ==
    LET v == IF psm.use_absolute THEN RAbs(fb_last.value)
             ELSE RMax(R(0), fb_last.value)
    IN  IF RLe(v, psm.activation_threshold) THEN R(0)
        ELSE IF RLe(psm.full_scale, v) THEN R(1)
        ELSE RDiv(RSub(v, psm.activation_threshold),
                  RSub(psm.full_scale, psm.activation_threshold))

\* The latest input was negative and use_absolute is off
NegativeIgnored == ~psm.use_absolute /\ RLt(fb_last.value, R(0))

\* C22 as stated: with smoothing_alpha >= 1 every call returns the ramp of
\* its input, and with use_absolute off every negative input maps to 0.
C22_Instantaneous_Original ==
    UnsmoothedCall =>
        /\ fb_last.out = RampOfInput
        /\ NegativeIgnored => fb_last.out = R(0)

\* C22: with smoothing_alpha >= 1 every call returns the ramp of its input,
\* and with use_absolute off and activation_threshold >= 0 every negative
\* input maps to 0.
C22_Instantaneous ==
    UnsmoothedCall =>
        /\ fb_last.out = RampOfInput
        /\ (NegativeIgnored /\ RLe(R(0), psm.activation_threshold))
              => fb_last.out = R(0)

\* C22 witness: a third call that returns 0 for a negative input with
\* use_absolute off and a positive threshold on an unsmoothed mapper.
C22_Witness ==
    /\ UnsmoothedCall /\ fb_last.nth >= 3
    /\ NegativeIgnored /\ RLt(R(0), psm.activation_threshold)
    /\ RLt(psm.activation_threshold, fb_cfg.full_scale)
    /\ fb_last.out = R(0)

\* The ear compute_metrics measures the neck from (the more visible one, the
\* left one when both are equally visible) and the shoulder and hip of its
\* side, in the landmarks of the call.
NeckEar == _choose_side(cm_in.landmarks, left_ear, right_ear)

NeckShoulder == IF NeckEar = left_ear THEN left_shoulder ELSE right_shoulder

NeckHip == IF NeckEar = left_ear THEN left_hip ELSE right_hip

Seen(index) ==
    RLe(cm_in.visibility_threshold, _visibility(cm_in.landmarks[index]))

SameSideSeen == Seen(NeckEar) /\ Seen(NeckShoulder) /\ Seen(NeckHip)

UpperBodySeen ==
    Seen(NeckEar) /\ Seen(NeckShoulder) /\ Seen(left_shoulder)
    /\ Seen(right_shoulder)

HipsNotVisible == ~Seen(left_hip) /\ ~Seen(right_hip)

EarRightOfShoulder ==
    RLt(cm_in.landmarks[NeckShoulder].x, cm_in.landmarks[NeckEar].x)

\* C23: compute_metrics resolves neck_deg exactly when (a) the more visible
\* ear and the shoulder and hip of its side are all visible, or (b) the
\* fallback is allowed and that ear, that shoulder and both shoulders are
\* visible; with the hips not visible and the upper body visible, neck_deg
\* is known with the fallback allowed, and positive for an ear to the right
\* of its shoulder, and unknown with the fallback disabled.
C23_NeckResolution ==
    (cm_done /\ cm_in.landmarks # <<>>) =>
        /\ cm_out.neck_deg.known <=>
               \/ SameSideSeen
               \/ cm_in.allow_upper_body_neck_fallback /\ UpperBodySeen
        /\ (HipsNotVisible /\ UpperBodySeen) =>
               IF cm_in.allow_upper_body_neck_fallback
               THEN /\ cm_out.neck_deg.known
                    /\ EarRightOfShoulder => cm_out.neck_deg.sgn = 1
               ELSE ~cm_out.neck_deg.known

C23_Witness ==
    /\ cm_done
    /\ cm_in.landmarks # <<>>
    /\ HipsNotVisible
    /\ UpperBodySeen
    /\ cm_in.allow_upper_body_neck_fallback
    /\ EarRightOfShoulder
    /\ NeckEar = right_ear
    /\ cm_out.neck_deg = Known(1)
    /\ ~cm_out.lean_deg.known

\* An update call has just been made with an unknown sample for the metric.
UnknownTick(name) ==
    /\ sm_calls' = sm_calls + 1
    /\ sm_in'.metrics[name] = None

\* The metric has had a known sample, at most hold_seconds before the call.
WithinHold(name) ==
    /\ sm_last_valid[name] # None
    /\ RLe(RSub(sm_in'.now, sm_last_valid[name]), sm_cfg.hold_seconds)

\* C24: when a metric's sample is unknown and the time since its last valid
\* sample is at most hold_seconds, update emits the value it emitted at the
\* last valid sample and leaves the held value unchanged.
C24_HoldFreezes ==
    [][\A name \in SmootherMetrics :
          (UnknownTick(name) /\ WithinHold(name)) =>
              /\ sm_out'[name] = sm_valid_out[name]
              /\ sm_last_values'[name] = sm_last_values[name]
              /\ sm_last_values[name] = sm_valid_out[name]]_vars

C24_Witness ==
    /\ sm_calls >= 3
    /\ sm_in.metrics.neck_deg = None
    /\ sm_last_valid.neck_deg # None
    /\ RLt(sm_last_valid.neck_deg, sm_in.now)
    /\ RLe(RSub(sm_in.now, sm_last_valid.neck_deg), sm_cfg.hold_seconds)
    /\ sm_out.neck_deg = sm_valid_out.neck_deg
    /\ sm_out.neck_deg # Exact(R(0))
    /\ sm_in.metrics.lean_deg # None

\* The metric's last known sample is more than hold_seconds before the call.
PastHold(name) ==
    /\ sm_last_valid[name] # None
    /\ RLt(sm_cfg.hold_seconds, RSub(sm_in'.now, sm_last_valid[name]))

\* -dt / decay_seconds of the call just made: the exponent of its factor
DecayExponent == RNeg(RDiv(sm_in'.dt, sm_cfg.decay_seconds))

\* C25: on every unknown sample arriving more than hold_seconds after the
\* metric's last valid sample, the held value is multiplied by
\* exp(-dt/decay_seconds), a factor in (0, 1], when decay_seconds > 0 and
\* set to 0 otherwise, and the result is emitted; the emitted magnitude does
\* not grow from one tick to the next and the sign does not change.
C25_DecayAfterHold ==
    [][\A name \in SmootherMetrics :
          (UnknownTick(name) /\ PastHold(name)) =>
              /\ sm_out'[name] = sm_last_values'[name]
              /\ IF RLt(R(0), sm_cfg.decay_seconds)
                 THEN /\ RLe(DecayExponent, R(0))
                      /\ sm_last_values'[name].c = sm_last_values[name].c
                      /\ sm_last_values'[name].e =
                             IF RIsZero(sm_last_values[name].c) THEN R(0)
                             ELSE RSub(sm_last_values[name].e, DecayExponent)
                      /\ SignOf(sm_out'[name]) = SignOf(sm_out[name])
                 ELSE sm_last_values'[name] = Exact(R(0))
              /\ MagnitudeLe(sm_out'[name], sm_out[name])]_vars

C25_Witness ==
    /\ sm_calls >= 3
    /\ sm_in.metrics.neck_deg = None
    /\ sm_last_valid.neck_deg # None
    /\ RLt(sm_cfg.hold_seconds, RSub(sm_in.now, sm_last_valid.neck_deg))
    /\ RLt(R(0), sm_cfg.decay_seconds)
    /\ RLt(sm_out.neck_deg.c, R(0))
    /\ RLt(R(0), sm_in.dt)
    /\ RLt(RDiv(sm_in.dt, sm_cfg.decay_seconds), sm_out.neck_deg.e)
    /\ sm_valid_out.neck_deg = Exact(sm_out.neck_deg.c)

\* C26: for each metric, update emits 0 on every tick before the metric's
\* first known sample, and on the first known sample emits exactly that
\* sample and seeds the filter with it, for the EMA filter, the One-Euro
\* filter and no filter alike.
C26_FirstSampleExact ==
    [][\A name \in SmootherMetrics :
          (sm_calls' = sm_calls + 1 /\ sm_known[name] = 0) =>
              IF sm_in'.metrics[name] = None
              THEN /\ sm_out'[name] = Exact(R(0))
                   /\ sm_filters'[name].value = None
              ELSE /\ sm_out'[name] = Exact(sm_in'.metrics[name])
                   /\ FilterKind(sm_cfg.smoothing) # "none" =>
                          sm_filters'[name].value = sm_in'.metrics[name]]_vars

C26_Witness ==
    /\ sm_calls >= 3
    /\ FilterKind(sm_cfg.smoothing) = "one_euro"
    /\ sm_known.tilt_deg = 1
    /\ sm_known.lean_deg >= 2
    /\ sm_in.metrics.tilt_deg = R(-4)
    /\ RLt(R(0), sm_in.dt)
    /\ sm_out.tilt_deg = Exact(R(-4))
    /\ sm_out.lean_deg # Exact(sm_in.metrics.lean_deg)

\* C28: in every loop iteration in which now - last_servo >= servo_interval
\* the actuation task runs in that iteration, whatever the vision task did:
\* from the vision task the iteration goes on to the actuation task unless
\* an exception or an interrupt leaves the loop.
C28_ActuationIndependent ==
    [][(/\ pc = "vision"
        /\ RLe(servo_interval, RSub(main_now, last_servo))
        /\ pc' # "finally_actuator")
       => pc' = "actuate"]_vars

\* A map_landmarks call has just been made.
FaceTick ==
    /\ fb_calls' = fb_calls + 1
    /\ fb_last'.op = "map_landmarks"

\* Fewer than baseline_samples valid face scales were seen before the call.
Bootstrap == fb_counts.valid < fpm.baseline_samples

\* ratio = scale / baseline of the call just made, the baseline being the
\* one before the call
TickRatio == RDiv(fb_last'.scale, RMax(fpm._baseline, Epsilon))

Triggering ==
    /\ fb_last'.scale # None
    /\ ~Bootstrap
    /\ RLt(fb_cfg.activation_threshold, TickRatio)

\* C31: the baseline changes only on a tick with a defined face scale that
\* is in the bootstrap phase or has ratio <= activation_threshold; on a tick
\* with ratio > activation_threshold or an undefined scale the baseline and
\* the samples counter are unchanged; the counter never exceeds
\* baseline_samples.
C31_BaselineUpdates ==
    [][FaceTick =>
          /\ fpm'._baseline # fpm._baseline =>
                 /\ fb_last'.scale # None
                 /\ Bootstrap \/ RLe(TickRatio, fb_cfg.activation_threshold)
          /\ (fb_last'.scale = None \/ Triggering) =>
                 /\ fpm'._baseline = fpm._baseline
                 /\ fpm'._samples = fpm._samples
          /\ fpm'._samples <= fpm'.baseline_samples]_vars

C31_Witness ==
    /\ fb_last.op = "map_landmarks"
    /\ fb_last.scale # None
    /\ fpm.baseline_samples = 2
    /\ fb_last.nth = 3
    /\ fb_last.base_before # None
    /\ RLt(fb_cfg.activation_threshold,
           RDiv(fb_last.scale, RMax(fb_last.base_before, Epsilon)))
    /\ fpm._baseline = fb_last.base_before
    /\ fpm._samples = 2
    /\ RLt(R(0), fb_last.out)

\* A map_landmarks call has just been made with an undefined face scale.
UndefinedTick == FaceTick /\ fb_last'.scale = None

\* What the internal mapper yields for the configured activation_threshold.
BoundaryFallback == map_value(fpm._mapper, fb_cfg.activation_threshold)

\* C32 as stated: on an undefined-scale tick map_landmarks returns what the
\* internal mapper yields for the configured activation_threshold, which is
\* a raw intensity of 0 passed through the smoother, so the emitted
\* intensity does not increase.
C32_UndefinedScaleFallback_Original ==
    [][UndefinedTick =>
          /\ fb_last'.out = BoundaryFallback.out
          /\ fpm'._mapper = BoundaryFallback.self
          /\ BoundaryFallback.raw = R(0)
          /\ fb_last'.out = Smooth(fpm._mapper, R(0))
          /\ RLe(fb_last'.out, fpm._mapper._smoothed)]_vars

\* C32 amended: the same, the raw intensity being 0 and the emitted
\* intensity not increasing when activation_threshold >= 0.
C32_UndefinedScaleFallback ==
    [][UndefinedTick =>
          /\ fb_last'.out = BoundaryFallback.out
          /\ fpm'._mapper = BoundaryFallback.self
          /\ RLe(R(0), fb_cfg.activation_threshold) =>
                 /\ BoundaryFallback.raw = R(0)
                 /\ fb_last'.out = Smooth(fpm._mapper, R(0))
                 /\ RLe(fb_last'.out, fpm._mapper._smoothed)]_vars

C32_Witness ==
    /\ fb_last.op = "map_landmarks"
    /\ fb_last.scale = None
    /\ fb_counts.valid >= 2
    /\ RLt(R(0), fb_cfg.activation_threshold)
    /\ RLt(R(0), fb_last.out)
    /\ fb_last.out = fpm._mapper._smoothed
    /\ fpm._baseline # None

\* prev moved towards target by at most max_delta
StepTowards(prev, target, max_delta) ==
    IF RLt(max_delta, RAbs(RSub(target, prev)))
    THEN IF RLt(target, prev) THEN RSub(prev, max_delta)
         ELSE RAdd(prev, max_delta)
    ELSE target

\* C33: map_metrics returns the strategy's target unchanged and records it
\* as the last output on the first call and on a later call with
\* dt = now - last_time <= 0; on every other call the rate limit is applied;
\* last_time is advanced to now.
C33_PassThroughOrLimit ==
    m_calls >= 1 =>
        /\ last_time = m_now
        /\ last_angles = m_out
        /\ IF m_calls = 1 \/ RLe(m_now, m_prev_now)
           THEN m_out = m_target
           ELSE \A i \in Segs :
                    m_out[i] = StepTowards(m_prev_out[i], m_target[i],
                                   RMul(m_cfg.max_deg_per_sec,
                                        RSub(m_now, m_prev_now)))

\* A call has just been made with the target of the call before it and a
\* later timestamp.
SameTargetLater ==
    /\ m_calls >= 1
    /\ m_calls' = m_calls + 1
    /\ m_target' = m_target
    /\ RLt(m_now, m_now')

\* what is left of a distance after max_deg_per_sec * dt of travel
RemainingAfter(distance) ==
    RMax(R(0), RSub(distance, RMul(m_cfg.max_deg_per_sec,
                                   RSub(m_now', m_now))))

\* C34: with a constant target, max_deg_per_sec > 0 and strictly increasing
\* timestamps every returned angle moves towards its target by at least
\* max_deg_per_sec * dt or onto it, never passes it, stays on it once there,
\* and is on it from some call on.
C34_SettlesOnTarget ==
    /\ [][SameTargetLater =>
            \A i \in Segs :
                LET before == RSub(m_target[i], m_out[i])
                    after == RSub(m_target'[i], m_out'[i])
                IN  /\ RLe(RAbs(after), RemainingAfter(RAbs(before)))
                    /\ RLe(R(0), before) => RLe(R(0), after)
                    /\ RLe(before, R(0)) => RLe(after, R(0))]_vars
    /\ <>[](m_calls >= 1 => m_out = m_target)

C34_Witness ==
    /\ m_calls >= 4
    /\ m_target = StrategyTarget(m_cfg, m_metrics)
    /\ m_out # m_target
    /\ m_prev_out # m_out
    /\ RLt(m_prev_now, m_now)
    /\ \E i \in Segs :
          /\ RLt(m_prev_out[i], m_out[i])
          /\ RLt(m_out[i], m_target[i])
          /\ RSub(m_out[i], m_prev_out[i]) =
                 RMul(m_cfg.max_deg_per_sec, RSub(m_now, m_prev_now))

\* An update call has just been made with a known sample for a metric that
\* has had a known sample before and has a filter.
FilteredTick(name) ==
    /\ sm_calls' = sm_calls + 1
    /\ sm_in'.metrics[name] # None
    /\ sm_known[name] >= 1
    /\ FilterKind(sm_cfg.smoothing) # "none"

\* the filter state left by the metric's latest known sample
StateAtLastKnown(name) ==
    [value |-> sm_valid_out[name].c,
     derivative |-> sm_filters[name].derivative]

\* C35: a tick with an unknown sample for a metric leaves the metric's
\* filter state and the time of its last valid sample unchanged, whatever
\* it does to the held value; so a known sample is filtered against the
\* value the filter gave for the previous known sample, not against the
\* held or decayed value emitted in between.
C35_GapKeepsFilterState ==
    [][\A name \in SmootherMetrics :
          /\ UnknownTick(name) =>
                 /\ sm_filters'[name] = sm_filters[name]
                 /\ sm_last_valid'[name] = sm_last_valid[name]
          /\ FilteredTick(name) =>
                 /\ sm_filters[name] = StateAtLastKnown(name)
                 /\ sm_filters'[name] =
                        Filter_update(sm_cfg.smoothing, StateAtLastKnown(name),
                                      sm_in'.metrics[name], sm_in'.dt)
                 /\ sm_out'[name] = Exact(sm_filters'[name].value)]_vars

C35_Witness ==
    /\ sm_calls = 2
    /\ sm_in.metrics.neck_deg = None
    /\ sm_known.neck_deg = 1
    /\ RLt(R(0), sm_out.neck_deg.e)
    /\ sm_filters.neck_deg.value = sm_valid_out.neck_deg.c
    /\ sm_out.neck_deg # Exact(sm_filters.neck_deg.value)
    /\ sm_last_values.neck_deg = sm_out.neck_deg

\* C36: two smoothers updated at the same timestamps, and with the same
\* samples so far for one metric, have emitted the same value for that
\* metric on the latest tick and hold the same state for it, whatever the
\* samples of the other two metrics were.
C36_MetricsIndependent ==
    \A name \in SmootherMetrics :
        sm2_same[name] =>
            /\ sm2_out[name] = sm_out[name]
            /\ sm2_filters[name] = sm_filters[name]
            /\ sm2_last_values[name] = sm_last_values[name]
            /\ sm2_last_valid[name] = sm_last_valid[name]

C36_Witness ==
    /\ sm_calls = 2
    /\ sm2_same.tilt_deg
    /\ sm_in.metrics.tilt_deg = None
    /\ sm_out.tilt_deg # Exact(R(0))
    /\ sm2_out.tilt_deg = sm_out.tilt_deg
    /\ ~sm2_same.lean_deg
    /\ ~sm2_same.neck_deg
    /\ sm2_out.lean_deg # sm_out.lean_deg
    /\ sm2_out.neck_deg # sm_out.neck_deg
    /\ sm2_in.neck_deg # None
    /\ sm_in.metrics.neck_deg = None

\* the pairs whose two landmarks both have visibility >= visibility_threshold
QualifyingPairs ==
    IF fs_in.landmarks = <<>> THEN {}
    ELSE {i \in Pairs :
             RLe(fs_in.visibility_threshold, fs_in.landmarks[i].vis)}

\* the k-th smallest distance of the qualifying pairs, k from 0
QualifyingDistance(k) ==
    LET i == CHOOSE j \in QualifyingPairs :
                 SortedIndex(fs_in.landmarks, QualifyingPairs, j) = k
    IN  fs_in.landmarks[i].d

\* the median of the distances of the qualifying pairs
MedianDistance ==
    LET n == Cardinality(QualifyingPairs) IN
    IF n % 2 = 1 THEN QualifyingDistance(n \div 2)
    ELSE RDiv(RAdd(QualifyingDistance(n \div 2 - 1),
                   QualifyingDistance(n \div 2)), R(2))

\* C37: compute_face_scale returns the median of the distances of the pairs
\* whose two landmarks both have visibility >= visibility_threshold, for
\* one to four such pairs, and None without landmarks or without such a
\* pair.
C37_MedianOfQualifyingPairs ==
    fs_done =>
        fs_out = IF QualifyingPairs = {} THEN None ELSE MedianDistance

\* C38: with enable_upper_body_fallback false and the hip of the measured
\* side below the visibility threshold, the neck metric main() computes is
\* unknown; it is the neck metric compute_metrics returns when it is handed
\* the configured flag, as the baseline calibration tool hands it.
C38_MainHonoursFallbackFlag ==
    (cm_main_done /\ cm_in.landmarks # <<>>) =>
        /\ (~cm_in.allow_upper_body_neck_fallback /\ ~Seen(NeckHip)) =>
               ~cm_main.neck_deg.known
        /\ cm_done => cm_main.neck_deg = cm_out.neck_deg

ShouldersSeen == Seen(left_shoulder) /\ Seen(right_shoulder)

HipsSeen == Seen(left_hip) /\ Seen(right_hip)

\* C39: compute_metrics returns three unknown metrics without landmarks;
\* with landmarks lean_deg is known exactly when both shoulders and both
\* hips have visibility >= threshold and tilt_deg exactly when both
\* shoulders have, whatever becomes of the other metrics.
C39_LeanTiltResolution ==
    cm_done =>
        IF cm_in.landmarks = <<>>
        THEN cm_out = [lean_deg |-> Unknown, neck_deg |-> Unknown,
                       tilt_deg |-> Unknown]
        ELSE /\ cm_out.lean_deg.known <=> (ShouldersSeen /\ HipsSeen)
             /\ cm_out.tilt_deg.known <=> ShouldersSeen

C39_Witness ==
    /\ cm_done
    /\ cm_in.landmarks # <<>>
    /\ ShouldersSeen
    /\ ~HipsSeen
    /\ Seen(left_hip)
    /\ cm_out.tilt_deg.known
    /\ ~cm_out.lean_deg.known
    /\ ~cm_out.neck_deg.known

============================================================================
